---- MODULE Spec2Model ----
(***************************************************************************)
(* A model of whatsapp-mail: the connection lifecycle manager              *)
(* (WhatsAppService, services/whatsapp.service.ts) and the message         *)
(* ingestion pipeline (MessageHandler / HistoryHandler).                   *)
(*                                                                         *)
(* Two specifications share the variables:                                 *)
(*   Spec       the connection manager driven by its caller, the transport *)
(*              events and the reconnect timers;                           *)
(*   SpecStore  the ingestion handlers driven by message events and        *)
(*              history batches.                                           *)
(***************************************************************************)
EXTENDS Integers, Sequences, FiniteSets, Bags, TLC

Min(a, b) == IF a <= b THEN a ELSE b

(***************************************************************************)
(* Bounds of the model.                                                    *)
(***************************************************************************)
\* sessions that are live at the same time
MaxSocks == 2
\* reconnect timers pending at the same time
MaxTimers == 2
\* connect() calls suspended at an await at the same time
MaxCalls == 1
\* onPersistent registrations
MaxHandlers == 1

(***************************************************************************)
(* Program constants.                                                      *)
(***************************************************************************)
maxReconnectAttempts == 10
BaseDelayMs == 1000
MaxDelayMs == 60000

VARIABLES
  \* ---- WhatsAppService fields
  sock,               \* this.sock: the socket object it references, or Null
  reconnectAttempts,  \* this.reconnectAttempts
  isConnecting,       \* this.isConnecting
  registeredHandlers, \* this.registeredHandlers: sequence of handler ids
  \* ---- the transport and the event loop
  orphans,            \* bag of live sockets the manager created and no longer references
  calls,              \* bag of connect() calls suspended before makeWASocket, by origin
  timers,             \* bag of pending setTimeout reconnects, [stale]
  \* ---- observations
  ret,                \* what the call that has just returned gave the application: the
                      \* outcome of a connect() that hit the guard, or disconnect()
  loggedOut,          \* a logged-out closure was handled and the caller has not connected since
  closures,           \* non-logged-out closures handled since the last open (saturates)
  backoff,            \* sum of the delays scheduled since the last open
  lastDelay,          \* the delay given to the most recent setTimeout
  \* ---- entity store (ingestion pipeline)
  store,              \* [chats, contacts, messages]: the tables, a row's index is its
                      \* primary key; [log]: the entries of the last handler invocation
  \* ---- the call under observation
  probe               \* the arguments and the result of the function or handler
                      \* invocation a property is stated about; NoProbe when none

vars == <<sock, reconnectAttempts, isConnecting, registeredHandlers,
          orphans, calls, timers, ret, loggedOut, closures, backoff, lastDelay,
          store, probe>>

\* A socket object is [st, listeners, saveCreds]: listeners are the persistent
\* handlers attached to it, saveCreds the number of creds.update listeners that
\* call the save callback, and st is "connecting" from makeWASocket until
\* the transport reports open, then "open", and "closed" once the session has
\* ended. A closed socket that this.sock does not reference is garbage (timers
\* and suspended calls capture `this`, never a socket), so only live sockets are
\* kept besides the one this.sock references.
Null == [st |-> "null", listeners |-> <<>>, saveCreds |-> 0]

NoProbe == [op |-> "none"]

IsLive(s) == s.st \in {"connecting", "open"}

\* The sessions that are live: created and not yet closed.
LiveCount == BagCardinality(orphans) + (IF IsLive(sock) THEN 1 ELSE 0)

RetNone == [kind |-> "none", inFlight |-> FALSE]

RetDisconnected == [kind |-> "disconnected", inFlight |-> FALSE]

(***************************************************************************)
(* Connection lifecycle manager: WhatsAppService.                          *)
(***************************************************************************)

\* A backoff without the cap.
DelayUncapped(n) == BaseDelayMs * 2^n

\* delay = Math.min(1000 * Math.pow(2, this.reconnectAttempts), 60000)
Delay(n) == Min(BaseDelayMs * 2^n, MaxDelayMs)

\* The manager fields the connection.update listener reads and writes.
Manager ==
  [sock |-> sock, reconnectAttempts |-> reconnectAttempts,
   isConnecting |-> isConnecting, timers |-> timers,
   loggedOut |-> loggedOut, closures |-> closures, backoff |-> backoff,
   lastDelay |-> lastDelay]

MarkStale(t) == [t EXCEPT !.stale = TRUE]

\* connection === 'close' branch of the connection.update listener.
HandleClose(m, isLoggedOut) ==
  LET m1 == [m EXCEPT !.isConnecting = FALSE] IN
  IF isLoggedOut
    THEN [m1 EXCEPT !.sock = Null,
                    !.loggedOut = TRUE,
                    !.timers = BagOfAll(MarkStale, m.timers)]
    ELSE LET n == Min(m.closures + 1, maxReconnectAttempts + 1) IN
         IF m.reconnectAttempts < maxReconnectAttempts
           THEN LET a == m.reconnectAttempts + 1
                    d == Delay(a)
                IN  [m1 EXCEPT !.reconnectAttempts = a,
                               !.timers = m.timers (+) SetToBag({[stale |-> FALSE]}),
                               !.lastDelay = d,
                               !.closures = n,
                               !.backoff = m.backoff + d]
           ELSE [m1 EXCEPT !.sock = Null, !.closures = n]

\* connection === 'open' branch of the connection.update listener.
HandleOpen(m) ==
  [m EXCEPT !.reconnectAttempts = 0, !.isConnecting = FALSE,
            !.closures = 0, !.backoff = 0]

\* Writes the manager fields back; a live socket that this.sock no longer
\* references stays live, among the orphans.
SetManager(m, others) ==
  /\ sock' = m.sock
  /\ orphans' = IF IsLive(sock) /\ m.sock.st = "null"
                  THEN others (+) SetToBag({sock})
                  ELSE others
  /\ reconnectAttempts' = m.reconnectAttempts
  /\ isConnecting' = m.isConnecting
  /\ timers' = m.timers
  /\ loggedOut' = m.loggedOut
  /\ closures' = m.closures
  /\ backoff' = m.backoff
  /\ lastDelay' = m.lastDelay

\* sock.ev.on(event, handler)
Attach(s, h) == [s EXCEPT !.listeners = Append(@, h)]

\* onPersistent(event, handler); every registration passes a new closure.
onPersistent(h) ==
  /\ Len(registeredHandlers) < MaxHandlers
  /\ h = Len(registeredHandlers) + 1
  /\ registeredHandlers' = Append(registeredHandlers, h)
  /\ sock' = IF sock # Null THEN Attach(sock, h) ELSE sock
  /\ ret' = RetNone
  /\ UNCHANGED <<reconnectAttempts, isConnecting, orphans, calls, timers,
                 loggedOut, closures, backoff, lastDelay, store, probe>>

\* A handler attached by on() and registered for later sockets as well.
onRegistering(h) ==
  /\ sock # Null
  /\ ~probe.attached
  /\ sock' = Attach(sock, h)
  /\ registeredHandlers' = Append(registeredHandlers, h)
  /\ probe' = [probe EXCEPT !.attached = TRUE]
  /\ ret' = RetNone
  /\ UNCHANGED <<reconnectAttempts, isConnecting, orphans, calls, timers,
                 loggedOut, closures, backoff, lastDelay, store>>

\* on(event, handler), and sock.ev.on(event, handler) on the socket that
\* connect() returned: getSocket() throws when there is no socket. The
\* application attaches one such handler.
on(h) ==
  /\ sock # Null
  /\ ~probe.attached
  /\ sock' = Attach(sock, h)
  /\ probe' = [probe EXCEPT !.attached = TRUE]
  /\ ret' = RetNone
  /\ UNCHANGED <<reconnectAttempts, isConnecting, registeredHandlers, orphans,
                 calls, timers, loggedOut, closures, backoff, lastDelay, store>>

\* A socket left without the registered handlers.
applyNoHandlers(s) == s

\* applyHandlers(): the socket after every registered handler has been attached
\* to it, in registration order.
applyHandlers(s) == [s EXCEPT !.listeners = @ \o registeredHandlers]

\* connect(), the isConnecting guard: what the caller gets back.
GuardResult ==
  IF sock # Null
    THEN [kind |-> "handle", inFlight |-> sock.st = "connecting"]
    ELSE [kind |-> "throw", inFlight |-> FALSE]

\* A socket without a creds.update listener.
NoSaveCreds(s) == s

\* this.sock.ev.on('creds.update', saveCreds)
AttachSaveCreds(s) == [s EXCEPT !.saveCreds = @ + 1]

\* connect() called by the application, up to its first await.
connect ==
  /\ IF isConnecting
       THEN /\ ret' = GuardResult
            /\ UNCHANGED <<isConnecting, calls, loggedOut>>
       ELSE /\ BagCardinality(calls) < MaxCalls
            /\ isConnecting' = TRUE
            /\ calls' = calls (+) SetToBag({"caller"})
            /\ loggedOut' = FALSE
            /\ ret' = RetNone
  /\ UNCHANGED <<sock, reconnectAttempts, registeredHandlers, orphans, timers,
                 closures, backoff, lastDelay, store, probe>>

\* connect() resumed after its awaits: makeWASocket, the creds.update and
\* connection.update listeners, applyHandlers, return this.sock.
connectCreate(by) ==
  /\ BagIn(by, calls)
  /\ LiveCount < MaxSocks
  /\ calls' = calls (-) SetToBag({by})
  /\ sock' = applyHandlers(AttachSaveCreds([st |-> "connecting",
                                            listeners |-> <<>>,
                                            saveCreds |-> 0]))
  /\ orphans' = IF IsLive(sock) THEN orphans (+) SetToBag({sock}) ELSE orphans
  /\ ret' = RetNone
  /\ UNCHANGED <<reconnectAttempts, isConnecting, registeredHandlers, timers,
                 loggedOut, closures, backoff, lastDelay, store, probe>>

\* connect() resumed with createAuthState / createBaileysConfig rejecting:
\* the catch block resets the flag and rethrows.
connectFail(by) ==
  /\ BagIn(by, calls)
  /\ calls' = calls (-) SetToBag({by})
  /\ isConnecting' = FALSE
  /\ ret' = RetNone
  /\ UNCHANGED <<sock, reconnectAttempts, registeredHandlers, orphans, timers,
                 loggedOut, closures, backoff, lastDelay, store, probe>>

\* The transport reports connection 'open' on the socket this.sock references.
OnOpenHeld ==
  /\ sock.st = "connecting"
  /\ SetManager([HandleOpen(Manager) EXCEPT !.sock.st = "open"], orphans)
  /\ ret' = RetNone
  /\ UNCHANGED <<registeredHandlers, calls, store, probe>>

\* The transport reports connection 'open' on a socket that was replaced.
OnOpenOrphan(o) ==
  /\ BagIn(o, orphans)
  /\ o.st = "connecting"
  /\ SetManager(HandleOpen(Manager),
                (orphans (-) SetToBag({o})) (+) SetToBag({[o EXCEPT !.st = "open"]}))
  /\ ret' = RetNone
  /\ UNCHANGED <<registeredHandlers, calls, store, probe>>

\* The transport reports connection 'close' on the socket this.sock references
\* (a socket reports close once).
OnCloseHeld(isLoggedOut) ==
  /\ IsLive(sock)
  /\ LET m == HandleClose([Manager EXCEPT !.sock.st = "closed"], isLoggedOut) IN
       /\ BagCardinality(m.timers) <= MaxTimers
       /\ sock' = m.sock
       /\ reconnectAttempts' = m.reconnectAttempts
       /\ isConnecting' = m.isConnecting
       /\ timers' = m.timers
       /\ loggedOut' = m.loggedOut
       /\ closures' = m.closures
       /\ backoff' = m.backoff
       /\ lastDelay' = m.lastDelay
  /\ ret' = RetNone
  /\ UNCHANGED <<registeredHandlers, orphans, calls, store, probe>>

\* The transport reports connection 'close' on a socket that was replaced.
OnCloseOrphan(o, isLoggedOut) ==
  /\ BagIn(o, orphans)
  /\ LET m == HandleClose(Manager, isLoggedOut) IN
       /\ BagCardinality(m.timers) <= MaxTimers
       /\ SetManager(m, orphans (-) SetToBag({o}))
  /\ ret' = RetNone
  /\ UNCHANGED <<registeredHandlers, calls, store, probe>>

\* A pending reconnect timer fires: this.connect(options).catch(log).
TimerFire(t) ==
  /\ BagIn(t, timers)
  /\ timers' = timers (-) SetToBag({t})
  /\ IF isConnecting
       THEN UNCHANGED <<isConnecting, calls>>
       ELSE /\ BagCardinality(calls) < MaxCalls
            /\ isConnecting' = TRUE
            /\ calls' = calls (+) SetToBag({IF t.stale THEN "stale" ELSE "timer"})
  /\ ret' = RetNone
  /\ UNCHANGED <<sock, reconnectAttempts, registeredHandlers, orphans,
                 loggedOut, closures, backoff, lastDelay, store, probe>>

\* disconnect(). sock.end(undefined) ends the session; `report` is whether the
\* transport delivers the resulting 'close' (no status code) to the
\* connection.update listener while end() runs.
disconnect(report) ==
  IF sock # Null
    THEN LET live == IsLive(sock)
             ended == [Manager EXCEPT !.sock.st = "closed"]
             m == IF live /\ report THEN HandleClose(ended, FALSE) ELSE ended
         IN  /\ (live \/ ~report)
             /\ BagCardinality(m.timers) <= MaxTimers
             /\ sock' = Null
             /\ isConnecting' = FALSE
             /\ reconnectAttempts' = m.reconnectAttempts
             /\ timers' = m.timers
             /\ loggedOut' = m.loggedOut
             /\ closures' = m.closures
             /\ backoff' = m.backoff
             /\ lastDelay' = m.lastDelay
             /\ ret' = RetDisconnected
             /\ UNCHANGED <<registeredHandlers, orphans, calls, store, probe>>
    ELSE /\ ~report
         /\ ret' = RetDisconnected
         /\ UNCHANGED <<sock, reconnectAttempts, isConnecting, registeredHandlers,
                        orphans, calls, timers, loggedOut, closures, backoff,
                        lastDelay, store, probe>>


(***************************************************************************)
(* Ingestion pipeline: MessageHandler.handleUpsert and                     *)
(* HistoryHandler.handleHistorySet over the entity store.                  *)
(***************************************************************************)

\* messages taken from one history batch per handleUpsert call
MESSAGE_BATCH_SIZE == 100

\* sync-history.ts
IDLE_TIMEOUT_MS == 60000

MAX_WAIT_MS == 600000

CheckIntervalMs == 10000
\* chat.update: body.substring(0, 200)
PreviewLength == 200
\* the trigger on messages: LEFT(COALESCE(NEW.body, '[Media]'), 100)
TriggerPreviewLength == 100

\* items of one message batch
MaxBatch == 2
\* content-kind keys of one payload
MaxKeys == 2
MaxUpdates == 3
MaxJidEvents == 3
MaxChecks == 8
MaxSlices == 2
\* history batches being handled at the same time
MaxPending == 2

\* Text values are sequences of characters; NULL stands for SQL NULL and for
\* JavaScript null or undefined.
NULL == <<"NULL">>
\* no row: primary keys start at 1
NoRow == 0
\* the time new Date() gives while the events below are ingested
Now == 3

\* Identifiers are sequences of characters, so that a suffix is a suffix.
AtGUs == <<"@", "g", ".", "u", "s">>
AtBroadcast == <<"@", "b", "r", "o", "a", "d", "c", "a", "s", "t">>
AtUser == <<"@", "s", ".", "w", "h", "a", "t", "s", "a", "p", "p", ".", "n", "e", "t">>

\* String.prototype.endsWith
EndsWith(str, suffix) ==
  /\ Len(str) >= Len(suffix)
  /\ SubSeq(str, Len(str) - Len(suffix) + 1, Len(str)) = suffix

\* String.prototype.substring(0, n)
Substring0(str, n) == SubSeq(str, 1, Min(Len(str), n))

chatTypeFromJid(jid) ==
  IF EndsWith(jid, AtGUs) THEN "group"
  ELSE IF EndsWith(jid, AtBroadcast) THEN "broadcast"
  ELSE "private"

\* A derivation that knows groups only.
chatTypeGroupOrPrivate(jid) ==
  IF EndsWith(jid, AtGUs) THEN "group" ELSE "private"

\* chatTypeFromJid of the history handler
historyChatTypeFromJid(jid) ==
  IF EndsWith(jid, AtGUs) THEN "group"
  ELSE IF EndsWith(jid, AtBroadcast) THEN "broadcast"
  ELSE "private"

\* The switch of resolveMessageType for one key; "" when the key matches no case.
KeyType(key) ==
  CASE key \in {"conversation", "extendedTextMessage"} -> "chat"
    [] key = "imageMessage" -> "image"
    [] key = "videoMessage" -> "video"
    [] key = "audioMessage" -> "audio"
    [] key \in {"documentMessage", "documentWithCaptionMessage"} -> "document"
    [] key = "stickerMessage" -> "sticker"
    [] key \in {"locationMessage", "liveLocationMessage"} -> "location"
    [] key \in {"contactMessage", "contactsArrayMessage"} -> "contact"
    [] key \in {"pollCreationMessage", "pollUpdateMessage"} -> "poll"
    [] key = "reactionMessage" -> "reaction"
    [] key \in {"protocolMessage", "senderKeyDistributionMessage"} -> "protocol"
    [] OTHER -> ""

\* A message content is the sequence of its entries in Object.keys order, each
\* [key, text, ctx]: text is the entry's text field (the conversation string,
\* text, caption, name or displayName) or NULL; ctx is NULL without a
\* contextInfo, "" for a contextInfo without stanzaId, else the stanzaId.
\* No content at all (msg.message null) is the sequence << >> with absent = TRUE.
RECURSIVE TypeOfKeys(_)
TypeOfKeys(content) ==
  IF content = <<>> THEN "unknown"
  ELSE IF KeyType(Head(content).key) # "" THEN KeyType(Head(content).key)
  ELSE TypeOfKeys(Tail(content))

resolveMessageType(content) == TypeOfKeys(content)

\* The entry of `content` under `key`, or none.
HasKey(content, key) == \E i \in 1..Len(content) : content[i].key = key

Entry(content, key) ==
  content[CHOOSE i \in 1..Len(content) : content[i].key = key]

BodyKeys ==
  <<"conversation", "extendedTextMessage", "imageMessage", "videoMessage",
    "documentMessage", "documentWithCaptionMessage", "pollCreationMessage",
    "reactionMessage", "contactMessage", "locationMessage", "liveLocationMessage">>

\* a property the update object does not have
Undefined == <<"undefined">>

\* x in `x || y`: neither null, undefined nor the empty string
Truthy(x) == x # NULL /\ x # Undefined /\ x # <<>>

\* a || b || null
OrNull(a, b) == IF Truthy(a) THEN a ELSE IF Truthy(b) THEN b ELSE NULL

RECURSIVE FirstText(_, _)
FirstText(content, keys) ==
  IF keys = <<>> THEN NULL
  ELSE IF HasKey(content, Head(keys)) /\ Truthy(Entry(content, Head(keys)).text)
    THEN Entry(content, Head(keys)).text
  ELSE FirstText(content, Tail(keys))

extractBody(content) == FirstText(content, BodyKeys)

ContextKeys ==
  <<"extendedTextMessage", "imageMessage", "videoMessage", "audioMessage",
    "documentMessage">>

RECURSIVE FirstContext(_, _)
FirstContext(content, keys) ==
  IF keys = <<>> THEN NULL
  ELSE IF HasKey(content, Head(keys)) /\ Entry(content, Head(keys)).ctx # NULL
    THEN Entry(content, Head(keys)).ctx
  ELSE FirstContext(content, Tail(keys))

\* contextInfo?.stanzaId || null
quotedStanzaId(content) ==
  LET ctx == FirstContext(content, ContextKeys) IN
  IF ctx = NULL \/ ctx = <<>> THEN NULL ELSE ctx

\* messageTimestamp is [t |-> "number", v], [t |-> "long", low, high],
\* [t |-> "absent"], or [t |-> "invalid"]: a value Number() turns into NaN, which
\* makes an Invalid Date that the store rejects on insert.
InvalidDate == -1

extractTimestamp(ts) ==
  CASE ts.t = "absent" -> Now
    [] ts.t = "long" -> ts.low
    [] ts.t = "number" -> ts.v
    [] OTHER -> InvalidDate

hasMedia(messageType) ==
  messageType \in {"image", "video", "audio", "document", "sticker"}

\* Model.findOne({ where: { <key>: value } }): the row's primary key, or NoRow.
FindRow(table, field, value) ==
  IF \E i \in 1..Len(table) : table[i][field] = value
    THEN CHOOSE i \in 1..Len(table) :
           /\ table[i][field] = value
           /\ \A j \in 1..Len(table) : table[j][field] = value => i <= j
    ELSE NoRow

NewChat(jid, type, name) ==
  [chat_id |-> jid, chat_type |-> type, name |-> name,
   last_message_at |-> 0, last_message_preview |-> NULL,
   total_message_count |-> 0,
   is_archived |-> FALSE, is_pinned |-> FALSE, is_muted |-> FALSE,
   unread_count |-> 0]

\* Chat.findOrCreate({ where: { chat_id }, defaults })
ChatFindOrCreate(chats, jid, type, name) ==
  IF FindRow(chats, "chat_id", jid) # NoRow THEN chats
  ELSE Append(chats, NewChat(jid, type, name))

NewContact(id, name, avatar, about) ==
  [contact_id |-> id, name |-> name, avatar_url |-> avatar, about |-> about,
   last_seen_at |-> 0]

\* A plain create in place of the lookup.
ContactAlwaysCreated(contacts, id, name) ==
  Append(contacts, NewContact(id, name, NULL, NULL))

\* Contact.findOrCreate({ where: { contact_id }, defaults })
ContactFindOrCreate(contacts, id, name) ==
  IF FindRow(contacts, "contact_id", id) # NoRow THEN contacts
  ELSE Append(contacts, NewContact(id, name, NULL, NULL))

\* A plain create in place of the lookup: no stored row is ever found.
MessageNeverFound(messages, messageId) == FALSE

\* The lookup of Message.findOrCreate({ where: { message_id }, defaults }).
MessageExists(messages, messageId) ==
  FindRow(messages, "message_id", messageId) # NoRow

\* INSERT INTO messages fails: message_id is UNIQUE, timestamp is NOT NULL and
\* an Invalid Date is no timestamp.
InsertRejected(messages, row) ==
  \/ row.timestamp = InvalidDate
  \/ \E i \in 1..Len(messages) : messages[i].message_id = row.message_id

\* The trigger trg_update_chat_timestamp, AFTER INSERT ON messages.
update_chat_last_message(chat, row) ==
  [chat EXCEPT
     !.last_message_at = row.timestamp,
     !.last_message_preview =
        IF row.body = NULL THEN <<"[", "M", "e", "d", "i", "a", "]">>
        ELSE Substring0(row.body, TriggerPreviewLength),
     !.total_message_count = @ + 1]

Tag(messageType) == <<"[", messageType, "]">>

LogEntry(kind, id) == [kind |-> kind, id |-> id]

\* An error thrown to the caller of a handler.
Rethrown(S, id) == [S EXCEPT !.log = Append(@, LogEntry("thrown", id))]

\* A catch block that logs and throws the error again.
CaughtAndRethrown(S, id) == [S EXCEPT !.log = Append(@, LogEntry("thrown", id))]

\* The catch block around one item of a handler's loop: the error is logged
\* and the loop goes on.
Caught(S, id) == [S EXCEPT !.log = Append(@, LogEntry("failed", id))]

\* A lookup that finds nothing.
QuotedNeverResolved(messages, quoted) == NoRow

\* A lookup made after the insertion: an id that is not stored yet resolves
\* to the row being inserted.
QuotedResolvedAfterInsert(messages, quoted) ==
  IF quoted = NULL THEN NoRow
  ELSE IF \E i \in 1..Len(messages) : messages[i].message_id = quoted
    THEN CHOOSE i \in 1..Len(messages) : messages[i].message_id = quoted
  ELSE Len(messages) + 1

\* The quoted external id resolved to the primary key of the stored Message,
\* if there is one now.
ResolveQuoted(messages, quoted) ==
  IF quoted = NULL THEN NoRow ELSE FindRow(messages, "message_id", quoted)

\* A handler that persists protocol messages like any other.
IsProtocolNever(messageType) == FALSE

\* messageType === 'protocol'
IsProtocol(messageType) == messageType = "protocol"

\* The row that Message.findOrCreate inserts for msg.
MessageRow(msg, chatPk, quotedMessageDbId) ==
  LET messageType == resolveMessageType(msg.content)
      body == extractBody(msg.content)
      msgHasMedia == hasMedia(messageType)
  IN [message_id |-> msg.id, chat_id |-> chatPk,
      sender_id |-> IF msg.participant # NULL THEN msg.participant
                    ELSE msg.remoteJid,
      sender_name |-> msg.pushName,
      is_from_me |-> msg.fromMe, body |-> body,
      message_type |-> messageType, has_media |-> msgHasMedia,
      media_caption |-> IF msgHasMedia THEN body ELSE NULL,
      timestamp |-> extractTimestamp(msg.ts),
      quoted_message_id |-> quotedMessageDbId,
      raw_data |-> msg]

\* body ? body.substring(0, 200) : `[${messageType}]`
ChatPreview(body, messageType) ==
  IF Truthy(body) THEN Substring0(body, PreviewLength) ELSE Tag(messageType)

\* A chat update that takes the push-name of every inserted message.
ChatRenamedAfterInsert(chat, chatName, msg) ==
  [chat EXCEPT
     !.name = IF Truthy(msg.pushName) THEN msg.pushName ELSE @,
     !.last_message_at = extractTimestamp(msg.ts),
     !.last_message_preview = ChatPreview(extractBody(msg.content),
                                          resolveMessageType(msg.content))]

\* chat.update(chatUpdate) after the insertion of msg: chatName is the name
\* of the Chat as Chat.findOrCreate returned it.
ChatAfterInsert(chat, chatName, msg) ==
  LET named == IF ~Truthy(chatName) /\ Truthy(msg.pushName) /\ ~msg.fromMe
                  /\ chatTypeFromJid(msg.remoteJid) = "private"
                 THEN [chat EXCEPT !.name = msg.pushName]
                 ELSE chat
  IN [named EXCEPT
        !.last_message_at = extractTimestamp(msg.ts),
        !.last_message_preview = ChatPreview(extractBody(msg.content),
                                             resolveMessageType(msg.content))]

\* An iteration whose writes are undone when it fails, and that always fails.
ProcessMessageUndone(S, msg) == Caught(S, msg.id)

\* One iteration of the loop of handleUpsert: the store after msg.
ProcessMessage(S, msg) ==
  IF msg.remoteJid \in {NULL, <<>>} \/ msg.id \in {NULL, <<>>}
    THEN [S EXCEPT !.log = Append(@, LogEntry("skipped", msg.id))]
  ELSE
  LET chatJid == msg.remoteJid
      messageId == msg.id
      senderId == IF msg.participant # NULL THEN msg.participant ELSE msg.remoteJid
      isFromMe == msg.fromMe
      pushName == msg.pushName
      messageType == resolveMessageType(msg.content)
      body == extractBody(msg.content)
      timestamp == extractTimestamp(msg.ts)
  IN
  IF IsProtocol(messageType)
    THEN [S EXCEPT !.log = Append(@, LogEntry("protocol", messageId))]
  ELSE IF S.down
    THEN Caught(S, messageId)
  ELSE
  LET chatType == chatTypeFromJid(chatJid)
      chats1 == ChatFindOrCreate(S.chats, chatJid, chatType, NULL)
      chatPk == FindRow(chats1, "chat_id", chatJid)
      chat == chats1[chatPk]
      contacts1 == ContactFindOrCreate(S.contacts, senderId, pushName)
      quoted == quotedStanzaId(msg.content)
      quotedMessageDbId == ResolveQuoted(S.messages, quoted)
      row == MessageRow(msg, chatPk, quotedMessageDbId)
      S1 == [S EXCEPT !.chats = chats1, !.contacts = contacts1]
  IN
  IF MessageExists(S.messages, messageId)
    THEN [S1 EXCEPT !.log = Append(@, LogEntry("duplicate", messageId))]
  ELSE IF InsertRejected(S.messages, row)
    THEN Caught(S1, messageId)
  ELSE
  LET updated == ChatAfterInsert(update_chat_last_message(chat, row), chat.name,
                                  msg)
  IN [S1 EXCEPT !.chats = [chats1 EXCEPT ![chatPk] = updated],
                !.messages = Append(S.messages, row),
                !.log = Append(@, LogEntry("saved", messageId))]

\* A loop without the per-item catch: the first failing item ends the batch.
RECURSIVE ProcessAllAborting(_, _)
ProcessAllAborting(S, batch) ==
  IF batch = <<>> THEN S
  ELSE LET S1 == ProcessMessage(S, Head(batch)) IN
       IF S1.log[Len(S1.log)].kind = "failed" THEN S1
       ELSE ProcessAllAborting(S1, Tail(batch))

\* The loop of handleUpsert over a batch: the messages one after the other,
\* each on the store S1 that the one before it left. The batch is taken in two
\* halves, the second on the store the first has left.
RECURSIVE ProcessAll(_, _)
ProcessAll(S, batch) ==
  IF batch = <<>> THEN S
  ELSE IF Len(batch) = 1 THEN ProcessMessage(S, batch[1])
  ELSE LET half == Len(batch) \div 2 IN
       CHOOSE S2 \in {ProcessAll(S1, SubSeq(batch, half + 1, Len(batch))) :
                        S1 \in {ProcessAll(S, SubSeq(batch, 1, half))}} : TRUE

\* MessageHandler.handleUpsert({ messages, type })
handleUpsert(S, batch) == ProcessAll(S, batch)

\* The chat loop of handleHistorySet, inside the transaction. A name of more
\* than 255 characters (LongName) is rejected by the store when it is written.
LongName == <<"long">>

RECURSIVE HistoryChats(_, _)
HistoryChats(T, items) ==
  IF items = <<>> \/ T.failed THEN T
  ELSE
  LET c == Head(items)
      chatName == OrNull(c.name, NULL)
      pk == FindRow(T.chats, "chat_id", c.id)
      writes == IF pk = NoRow THEN TRUE
                ELSE chatName # NULL /\ ~Truthy(T.chats[pk].name)
      T1 == IF ~Truthy(c.id) THEN T
            ELSE IF writes /\ chatName = LongName THEN [T EXCEPT !.failed = TRUE]
            ELSE IF pk = NoRow
              THEN [T EXCEPT !.chats = Append(@, NewChat(c.id, historyChatTypeFromJid(c.id), chatName))]
            ELSE IF writes
              THEN [T EXCEPT !.chats[pk].name = chatName]
            ELSE T
  IN HistoryChats(T1, Tail(items))

\* The contact loop of handleHistorySet, inside the transaction.
RECURSIVE HistoryContacts(_, _)
HistoryContacts(T, items) ==
  IF items = <<>> \/ T.failed THEN T
  ELSE
  LET c == Head(items)
      contactName == OrNull(c.name, c.notify)
      pk == FindRow(T.contacts, "contact_id", c.id)
      T1 == IF ~Truthy(c.id) THEN T
            ELSE IF pk = NoRow /\ contactName = LongName THEN [T EXCEPT !.failed = TRUE]
            ELSE [T EXCEPT !.contacts = ContactFindOrCreate(@, c.id, contactName)]
  IN HistoryContacts(T1, Tail(items))

\* The whole batch as one slice.
WholeBatch(msgs) == IF msgs = <<>> THEN <<>> ELSE <<msgs>>

\* messages.slice(i, i + MESSAGE_BATCH_SIZE) for i = 0, MESSAGE_BATCH_SIZE, ...
Slices(msgs) ==
  [k \in 1..((Len(msgs) + MESSAGE_BATCH_SIZE - 1) \div MESSAGE_BATCH_SIZE) |->
     SubSeq(msgs, (k - 1) * MESSAGE_BATCH_SIZE + 1,
            Min(k * MESSAGE_BATCH_SIZE, Len(msgs)))]

RECURSIVE UpsertEach(_, _)
UpsertEach(S, slices) ==
  IF slices = <<>> THEN S
  ELSE CHOOSE S2 \in {UpsertEach(S1, Tail(slices)) :
                        S1 \in {handleUpsert(S, Head(slices))}} : TRUE

\* The message loop of handleHistorySet: one handleUpsert call per slice.
HistoryMessages(S, msgs) == UpsertEach(S, Slices(msgs))

\* sequelize.transaction(): the writes made under it are held in T.
Begin(S) == [chats |-> S.chats, contacts |-> S.contacts, failed |-> FALSE]

\* transaction.commit()
Commit(S, T) == [S EXCEPT !.chats = T.chats, !.contacts = T.contacts]

\* A rollback that undoes nothing, as when the writes were made outside the
\* transaction.
RollbackKeepsWrites(S, T) == [S EXCEPT !.chats = T.chats, !.contacts = T.contacts]

\* transaction.rollback(): the store as it was before the transaction began
Rollback(S, T) == S

\* HistoryHandler.handleHistorySet({ messages, chats, contacts, isLatest }).
\* The catch block rolls back, logs and rethrows.
handleHistorySet(S, h) ==
  IF S.down THEN Rethrown(S, NULL) ELSE
  LET T == HistoryContacts(HistoryChats(Begin(S), h.chats), h.contacts)
  IN
  IF T.failed
    THEN Rethrown([Rollback(S, T) EXCEPT
                     !.log = Append(@, LogEntry("rolledBack", NULL))], NULL)
  ELSE
  LET S1 == HistoryMessages(Commit(S, T), h.messages)
  IN IF h.isLatest
       THEN [S1 EXCEPT !.log = Append(@, LogEntry("historyComplete", NULL))]
       ELSE S1

(***************************************************************************)
(* ContactHandler.handleUpdate over the entity store.                      *)
(***************************************************************************)
\* A changes object that takes every name it is given, null included.
ContactChangesAnyName(u, contactName) ==
  [name |-> contactName,
   avatar_url |-> u.imgUrl,
   about |-> u.status]

\* The changes object built for an existing contact: Undefined marks a column
\* that is not changed.
ContactChanges(u, contactName) ==
  [name |-> IF contactName # NULL THEN contactName ELSE Undefined,
   avatar_url |-> u.imgUrl,
   about |-> u.status]

\* One iteration of the loop of ContactHandler.handleUpdate. A name of more
\* than 255 characters (LongName) is rejected by the store when it is written.
ContactUpdateOne(S, u) ==
  IF ~Truthy(u.id)
    THEN [S EXCEPT !.log = Append(@, LogEntry("skipped", u.id))]
  ELSE
  LET contactName == OrNull(u.name, u.notify)
      pk == FindRow(S.contacts, "contact_id", u.id)
      changes == ContactChanges(u, contactName)
      changed == {f \in {"name", "avatar_url", "about"} : changes[f] # Undefined}
  IN
  IF S.down
    THEN Caught(S, u.id)
  ELSE IF pk = NoRow
    THEN IF contactName = LongName
           THEN Caught(S, u.id)
           ELSE [S EXCEPT
                   !.contacts = Append(@, NewContact(u.id, contactName,
                                                     OrNull(u.imgUrl, NULL),
                                                     OrNull(u.status, NULL))),
                   !.log = Append(@, LogEntry("created", u.id))]
  ELSE IF changed = {}
    THEN [S EXCEPT !.log = Append(@, LogEntry("unchanged", u.id))]
  ELSE IF changes.name = LongName
    THEN Caught(S, u.id)
  ELSE [S EXCEPT
          !.contacts[pk] =
             [f \in DOMAIN @ |->
                IF f \in changed THEN changes[f]
                ELSE IF f = "last_seen_at" THEN Now
                ELSE @[f]],
          !.log = Append(@, LogEntry("updated", u.id))]

\* ContactHandler.handleUpdate(updates)
RECURSIVE ContactHandler_handleUpdate(_, _)
ContactHandler_handleUpdate(S, updates) ==
  IF updates = <<>> THEN S
  ELSE ContactHandler_handleUpdate(ContactUpdateOne(S, Head(updates)), Tail(updates))

(***************************************************************************)
(* ChatHandler.handleUpdate over the entity store.                         *)
(***************************************************************************)
\* An optional property of an update: present with a value, present with
\* null, or undefined.
Some(v) == [present |-> TRUE, set |-> TRUE, val |-> v]

NullFlag == [present |-> TRUE, set |-> FALSE, val |-> FALSE]

NullNumber == [present |-> TRUE, set |-> FALSE, val |-> 0]

\* The changes object of a chats.update item: the columns to write. A null
\* name is written, an undefined one is not.
ChatChanges(u) ==
  [is_archived |-> [set |-> u.archive.set, val |-> u.archive.val],
   is_pinned |-> [set |-> u.pin.set, val |-> u.pin.val > 0],
   is_muted |-> [set |-> u.mute.set, val |-> u.mute.val > 0],
   name |-> [set |-> u.name # Undefined, val |-> u.name],
   unread_count |-> [set |-> u.unreadCount.set, val |-> u.unreadCount.val]]

\* One iteration of the loop of ChatHandler.handleUpdate.
ChatUpdateOne(S, u) ==
  IF ~Truthy(u.id)
    THEN [S EXCEPT !.log = Append(@, LogEntry("skipped", u.id))]
  ELSE
  LET pk == FindRow(S.chats, "chat_id", u.id)
      changes == ChatChanges(u)
      changed == {f \in DOMAIN changes : changes[f].set}
  IN
  IF S.down
    THEN Caught(S, u.id)
  ELSE IF pk = NoRow
    THEN [S EXCEPT !.log = Append(@, LogEntry("notFound", u.id))]
  ELSE IF changed = {}
    THEN [S EXCEPT !.log = Append(@, LogEntry("unchanged", u.id))]
  ELSE IF changes.name.set /\ changes.name.val = LongName
    THEN Caught(S, u.id)
  ELSE [S EXCEPT
          !.chats[pk] = [f \in DOMAIN @ |-> IF f \in changed THEN changes[f].val ELSE @[f]],
          !.log = Append(@, LogEntry("updated", u.id))]

\* ChatHandler.handleUpdate(updates)
RECURSIVE ChatHandler_handleUpdate(_, _)
ChatHandler_handleUpdate(S, updates) ==
  IF updates = <<>> THEN S
  ELSE ChatHandler_handleUpdate(ChatUpdateOne(S, Head(updates)), Tail(updates))

(***************************************************************************)
(* GroupHandler over the entity store.                                     *)
(***************************************************************************)
\* A group_metadata row as the store creates it: the columns take their
\* defaults. A boolean or integer column holds Some(v) or null.
NewGroupMetadata(chatPk) ==
  [chat_id |-> chatPk, subject |-> NULL, owner |-> NULL, description |-> NULL,
   announce |-> Some(FALSE), restrict_mode |-> Some(FALSE),
   join_approval_mode |-> Some(FALSE), member_add_mode |-> Some(FALSE),
   ephemeral_duration |-> NullNumber]

\* The changes object of a groups.update item: every property that is not
\* undefined is written, null included.
GroupChanges(u) ==
  [subject |-> [set |-> u.subject # Undefined, val |-> u.subject],
   owner |-> [set |-> u.owner # Undefined, val |-> u.owner],
   description |-> [set |-> u.desc # Undefined, val |-> u.desc],
   announce |-> [set |-> u.announce.present, val |-> u.announce],
   restrict_mode |-> [set |-> u.restrict.present, val |-> u.restrict],
   join_approval_mode |-> [set |-> u.joinApprovalMode.present,
                           val |-> u.joinApprovalMode],
   member_add_mode |-> [set |-> u.memberAddMode.present, val |-> u.memberAddMode],
   ephemeral_duration |-> [set |-> u.ephemeralDuration.present,
                           val |-> u.ephemeralDuration]]

\* GroupMetadata.findOrCreate({ where: { chat_id } }): unique_group_chat
\* allows one row per Chat.
GroupMetadataFindOrCreate(groups, chatPk) ==
  IF FindRow(groups, "chat_id", chatPk) # NoRow THEN groups
  ELSE Append(groups, NewGroupMetadata(chatPk))

\* GroupMetadata.findOrCreate with the changes as defaults, and
\* groupMeta.update(changes) when the row was found.
GroupMetadataWrite(groups, chatPk, changes) ==
  LET groups1 == GroupMetadataFindOrCreate(groups, chatPk)
      gid == FindRow(groups1, "chat_id", chatPk)
  IN [groups1 EXCEPT
        ![gid] = [f \in DOMAIN @ |->
                    IF f \in DOMAIN changes /\ changes[f].set THEN changes[f].val
                    ELSE @[f]]]

\* One iteration of the loop of GroupHandler.handleGroupUpdate. A subject or
\* an owner longer than its column (LongName) is rejected by the store; the
\* Chat is renamed before the GroupMetadata is written.
GroupUpdateOne(S, u) ==
  IF ~Truthy(u.id)
    THEN [S EXCEPT !.log = Append(@, LogEntry("skipped", u.id))]
  ELSE IF S.down
    THEN Caught(S, u.id)
  ELSE
  LET pk == FindRow(S.chats, "chat_id", u.id)
      changes == GroupChanges(u)
      changed == {f \in DOMAIN changes : changes[f].set}
  IN
  IF pk = NoRow
    THEN [S EXCEPT !.log = Append(@, LogEntry("notFound", u.id))]
  ELSE IF changes.subject.set /\ u.subject = LongName
    THEN Caught(S, u.id)
  ELSE
  LET S1 == IF changes.subject.set
              THEN [S EXCEPT !.chats[pk].name = u.subject] ELSE S
  IN
  IF changed = {}
    THEN [S1 EXCEPT !.log = Append(@, LogEntry("unchanged", u.id))]
  ELSE IF changes.owner.set /\ u.owner = LongName
    THEN Caught(S1, u.id)
  ELSE [S1 EXCEPT
          !.groups = GroupMetadataWrite(@, pk, changes),
          !.log = Append(@, LogEntry("updated", u.id))]

\* GroupHandler.handleGroupUpdate(updates)
RECURSIVE GroupHandler_handleGroupUpdate(_, _)
GroupHandler_handleGroupUpdate(S, updates) ==
  IF updates = <<>> THEN S
  ELSE GroupHandler_handleGroupUpdate(GroupUpdateOne(S, Head(updates)),
                                      Tail(updates))

\* GroupParticipant.findOne({ where: { group_metadata_id, participant_jid } }):
\* the position of the row, NoRow if there is none.
FindParticipant(parts, gid, jid) ==
  LET found == {i \in DOMAIN parts : /\ parts[i].group_metadata_id = gid
                                     /\ parts[i].participant_jid = jid}
  IN IF found = {} THEN NoRow ELSE CHOOSE i \in found : \A j \in found : i <= j

\* A removal that deletes the row.
HardDelete(parts, pk) ==
  [i \in 1..(Len(parts) - 1) |-> IF i < pk THEN parts[i] ELSE parts[i + 1]]

\* participant.update({ is_active: false, removed_at: new Date() })
SoftDelete(parts, pk) ==
  [parts EXCEPT ![pk].is_active = FALSE, ![pk].removed_at = Now]

\* An add that activates the row it finds.
AddReactivating(parts, gid, jid) ==
  LET pk == FindParticipant(parts, gid, jid) IN
  IF pk # NoRow THEN [parts EXCEPT ![pk].is_active = TRUE, ![pk].removed_at = 0]
  ELSE Append(parts, [group_metadata_id |-> gid, participant_jid |-> jid,
                      role |-> "member", is_active |-> TRUE, added_at |-> Now,
                      removed_at |-> 0])

\* GroupParticipant.findOrCreate for an added participant: unique_participant_group
\* allows one row per group and participant; a row that is found is left as it
\* is.
ParticipantFindOrCreate(parts, gid, jid) ==
  IF FindParticipant(parts, gid, jid) # NoRow THEN parts
  ELSE Append(parts, [group_metadata_id |-> gid, participant_jid |-> jid,
                      role |-> "member", is_active |-> TRUE, added_at |-> Now,
                      removed_at |-> 0])

\* One iteration of the participant loop of handleParticipantsUpdate. A
\* participant id longer than its column (LongName) is rejected on insertion.
ParticipantUpdateOne(S, gid, jid, action) ==
  LET pk == FindParticipant(S.participants, gid, jid)
      done == Append(S.log, LogEntry(action, jid))
  IN
  IF action = "add"
    THEN IF pk = NoRow /\ jid = LongName
           THEN Caught(S, jid)
           ELSE [S EXCEPT !.participants = ParticipantFindOrCreate(@, gid, jid),
                          !.log = done]
  ELSE IF action \notin {"remove", "promote", "demote"}
    THEN [S EXCEPT !.log = Append(@, LogEntry("unknown", jid))]
  ELSE IF pk = NoRow
    THEN S
  ELSE IF action = "remove"
    THEN [S EXCEPT !.participants = SoftDelete(@, pk), !.log = done]
  ELSE IF action = "promote"
    THEN [S EXCEPT !.participants[pk].role = "admin", !.log = done]
  ELSE [S EXCEPT !.participants[pk].role = "member", !.log = done]

RECURSIVE ParticipantsLoop(_, _, _, _)
ParticipantsLoop(S, gid, participants, action) ==
  IF participants = <<>> THEN S
  ELSE ParticipantsLoop(ParticipantUpdateOne(S, gid, Head(participants), action),
                        gid, Tail(participants), action)

\* A handler that finds or creates the Chat of the event.
handleParticipantsUpdateUpserting(S, event) ==
  IF S.down
    THEN Caught(S, event.id)
  ELSE
  LET chats1 == ChatFindOrCreate(S.chats, event.id, chatTypeFromJid(event.id), NULL)
      pk == FindRow(chats1, "chat_id", event.id)
      groups1 == GroupMetadataFindOrCreate(S.groups, pk)
      gid == FindRow(groups1, "chat_id", pk)
  IN ParticipantsLoop([S EXCEPT !.chats = chats1, !.groups = groups1], gid,
                      event.participants, event.action)

\* GroupHandler.handleParticipantsUpdate({ id, participants, action })
GroupHandler_handleParticipantsUpdate(S, event) ==
  IF S.down
    THEN Caught(S, event.id)
  ELSE
  LET pk == FindRow(S.chats, "chat_id", event.id) IN
  IF pk = NoRow
    THEN [S EXCEPT !.log = Append(@, LogEntry("notFound", event.id))]
  ELSE
  LET groups1 == GroupMetadataFindOrCreate(S.groups, pk)
      gid == FindRow(groups1, "chat_id", pk)
  IN ParticipantsLoop([S EXCEPT !.groups = groups1], gid, event.participants,
                      event.action)

(***************************************************************************)
(* The events fed to the handlers.                                         *)
(***************************************************************************)
J1 == <<"1">> \o AtUser
J2 == <<"2">> \o AtGUs
P3 == <<"3">> \o AtUser

M1 == <<"m", "1">>
M2 == <<"m", "2">>

Text(str) == <<[key |-> "conversation", text |-> str, ctx |-> NULL]>>
Image == <<[key |-> "imageMessage", text |-> NULL, ctx |-> NULL]>>
Reply(str, id) == <<[key |-> "extendedTextMessage", text |-> str, ctx |-> id]>>
KeyDistribution == <<[key |-> "senderKeyDistributionMessage", text |-> NULL, ctx |-> NULL]>>

Num(v) == [t |-> "number", v |-> v]

Msg(id, jid, content, ts) ==
  [id |-> id, remoteJid |-> jid,
   participant |-> IF jid = J2 THEN P3 ELSE NULL,
   fromMe |-> FALSE, pushName |-> <<"A">>, content |-> content, ts |-> ts]

\* Events with the same id may differ in everything else.
MsgEvents ==
  {Msg(M1, J1, Text(<<"h", "i">>), Num(1)),
   Msg(M1, J1, Image, Num(2)),
   Msg(M2, J2, Image, Num(2)),
   Msg(M2, J1, Reply(<<"r", "e">>, M1), [t |-> "long", low |-> 2, high |-> 0]),
   Msg(M2, J1, Text(<<"y", "o">>), [t |-> "invalid"]),
   Msg(M2, J1, KeyDistribution, Num(1))}

RECURSIVE SeqsUpTo(_, _)
SeqsUpTo(S, n) ==
  IF n = 0 THEN {<<>>}
  ELSE LET shorter == SeqsUpTo(S, n - 1) IN
       shorter \cup {Append(q, x) : q \in shorter, x \in S}

Batches == SeqsUpTo(MsgEvents, MaxBatch) \ {<<>>}

HistoryMsgEvents ==
  {Msg(M2, J2, Image, Num(2))}

HistoryChatItems ==
  {<<>>, <<[id |-> J1, name |-> <<"N">>]>>, <<[id |-> J2, name |-> LongName]>>}

HistoryContactItems ==
  {<<>>, <<[id |-> P3, name |-> NULL, notify |-> <<"A">>]>>}

HistoryBatches ==
  [chats : HistoryChatItems, contacts : HistoryContactItems,
   messages : SeqsUpTo(HistoryMsgEvents, MaxBatch), isLatest : BOOLEAN]

\* The tables the handlers write, the handlers' log, and whether the database
\* is unreachable (every query then throws).
EmptyStore ==
  [chats |-> <<>>, contacts |-> <<>>, messages |-> <<>>, groups |-> <<>>,
   participants |-> <<>>, log |-> <<>>, down |-> FALSE]

InitStore == store = EmptyStore

\* A messages.upsert event is delivered and handled.
MessagesUpsert(batch) ==
  /\ store' = handleUpsert([store EXCEPT !.log = <<>>], batch)
  /\ UNCHANGED <<sock, reconnectAttempts, isConnecting, registeredHandlers,
                 orphans, calls, timers, ret, loggedOut, closures, backoff,
                 lastDelay, probe>>

\* A messaging-history.set event is delivered and handled.
MessagingHistorySet(h) ==
  /\ store' = handleHistorySet([store EXCEPT !.log = <<>>], h)
  /\ UNCHANGED <<sock, reconnectAttempts, isConnecting, registeredHandlers,
                 orphans, calls, timers, ret, loggedOut, closures, backoff,
                 lastDelay, probe>>

CallOrigins == {"caller", "timer", "stale"}

Handlers == 1..MaxHandlers

InitConn ==
  /\ sock = Null
  /\ reconnectAttempts = 0
  /\ isConnecting = FALSE
  /\ registeredHandlers = <<>>
  /\ orphans = EmptyBag
  /\ calls = EmptyBag
  /\ timers = EmptyBag
  /\ ret = RetNone
  /\ loggedOut = FALSE
  /\ closures = 0
  /\ backoff = 0
  /\ lastDelay = 0

InitProbe == probe = NoProbe

Init ==
  /\ InitConn
  /\ InitStore
  /\ InitProbe

Next ==
  \/ \E h \in Handlers : onPersistent(h)
  \/ connect
  \/ \E by \in CallOrigins : connectCreate(by)
  \/ \E by \in CallOrigins : connectFail(by)
  \/ OnOpenHeld
  \/ \E o \in BagToSet(orphans) : OnOpenOrphan(o)
  \/ \E lo \in BOOLEAN : OnCloseHeld(lo)
  \/ \E o \in BagToSet(orphans), lo \in BOOLEAN : OnCloseOrphan(o, lo)
  \/ \E t \in BagToSet(timers) : TimerFire(t)
  \/ \E report \in BOOLEAN : disconnect(report)

Spec == Init /\ [][Next]_vars

NextStore ==
  \/ \E batch \in Batches : MessagesUpsert(batch)
  \/ \E h \in HistoryBatches : MessagingHistorySet(h)

SpecStore == Init /\ [][NextStore]_vars

(***************************************************************************)
(* One messages.upsert batch under observation, delivered to a store that  *)
(* earlier events have filled.                                             *)
(***************************************************************************)
BatchLen == MaxBatch + 1

WithPushName(msg, name) == [msg EXCEPT !.pushName = name]

\* Two of the events are rejected by the store when their Message is inserted.
BatchEvents ==
  {Msg(M1, J1, Text(<<"h", "i">>), Num(1)),
   WithPushName(Msg(M2, J1, Text(<<"y", "o">>), [t |-> "invalid"]), <<"B">>),
   Msg(M2, J1, Reply(<<"r", "e">>, M1), Num(2)),
   Msg(M2, J2, Image, [t |-> "invalid"]),
   Msg(M1, J2, Image, Num(2))}

ObservedBatches == SeqsUpTo(BatchEvents, BatchLen) \ {<<>>}

InitialStores ==
  {EmptyStore,
   [handleUpsert(EmptyStore, <<Msg(M1, J1, Text(<<"h", "i">>), Num(1))>>)
      EXCEPT !.log = <<>>]}

InitBatch ==
  /\ InitConn
  /\ store \in InitialStores
  /\ probe = NoProbe

\* handleUpsert({ messages: batch }) runs to its end.
ObservedUpsert(batch) ==
  /\ probe = NoProbe
  /\ store' = handleUpsert(store, batch)
  /\ probe' = [op |-> "handleUpsert", messages |-> batch, before |-> store]
  /\ UNCHANGED <<sock, reconnectAttempts, isConnecting, registeredHandlers,
                 orphans, calls, timers, ret, loggedOut, closures, backoff,
                 lastDelay>>

NextBatch == \E batch \in ObservedBatches : ObservedUpsert(batch)

SpecBatch == InitBatch /\ [][NextBatch]_vars

(***************************************************************************)
(* One payload under observation: classified, and ingested into an empty   *)
(* store through a live upsert or through a history batch.                 *)
(***************************************************************************)
\* The keys resolveMessageType knows, and one it does not.
ContentKeys ==
  {"conversation", "extendedTextMessage", "imageMessage", "videoMessage",
   "audioMessage", "documentMessage", "documentWithCaptionMessage",
   "stickerMessage", "locationMessage", "liveLocationMessage", "contactMessage",
   "contactsArrayMessage", "pollCreationMessage", "pollUpdateMessage",
   "reactionMessage", "protocolMessage", "senderKeyDistributionMessage",
   "messageContextInfo"}

\* The keys of an object are distinct; Object.keys gives them in some order.
KeyLists ==
  {ks \in SeqsUpTo(ContentKeys, MaxKeys) :
     \A i, j \in 1..Len(ks) : ks[i] = ks[j] => i = j}

Payload(ks) ==
  [i \in 1..Len(ks) |->
     [key |-> ks[i],
      text |-> IF ks[i] = "conversation" THEN <<"t">> ELSE NULL,
      ctx |-> NULL]]

InitClassify ==
  /\ InitConn
  /\ InitStore
  /\ \E ks \in KeyLists :
       probe = [op |-> "payload", content |-> Payload(ks), type |-> "", via |-> "none"]

\* resolveMessageType(msg.message)
Classify ==
  /\ probe.type = ""
  /\ probe' = [probe EXCEPT !.type = resolveMessageType(probe.content)]
  /\ UNCHANGED <<sock, reconnectAttempts, isConnecting, registeredHandlers,
                 orphans, calls, timers, ret, loggedOut, closures, backoff,
                 lastDelay, store>>

\* The payload arrives in a messages.upsert event.
IngestLive ==
  /\ probe.via = "none"
  /\ store' = handleUpsert(store, <<Msg(M1, J1, probe.content, Num(1))>>)
  /\ probe' = [probe EXCEPT !.via = "upsert"]
  /\ UNCHANGED <<sock, reconnectAttempts, isConnecting, registeredHandlers,
                 orphans, calls, timers, ret, loggedOut, closures, backoff,
                 lastDelay>>

\* The payload arrives in the messages of a messaging-history.set event.
IngestHistory ==
  /\ probe.via = "none"
  /\ store' = handleHistorySet(store,
                 [chats |-> <<>>, contacts |-> <<>>,
                  messages |-> <<Msg(M1, J1, probe.content, Num(1))>>,
                  isLatest |-> FALSE])
  /\ probe' = [probe EXCEPT !.via = "history"]
  /\ UNCHANGED <<sock, reconnectAttempts, isConnecting, registeredHandlers,
                 orphans, calls, timers, ret, loggedOut, closures, backoff,
                 lastDelay>>

NextClassify ==
  \/ Classify
  \/ IngestLive
  \/ IngestHistory

SpecClassify == InitClassify /\ [][NextClassify]_vars

(***************************************************************************)
(* A sequence of contacts.update events under observation.                 *)
(***************************************************************************)
ContactUpdate(id, name, notify, imgUrl, status) ==
  [id |-> id, name |-> name, notify |-> notify, imgUrl |-> imgUrl, status |-> status]

ContactEvents ==
  {ContactUpdate(J1, <<"Alice">>, Undefined, Undefined, Undefined),
   ContactUpdate(J1, NULL, Undefined, Undefined, Undefined),
   ContactUpdate(J1, <<"Alicia">>, Undefined, Undefined, Undefined),
   ContactUpdate(J1, Undefined, <<"Bob">>, Undefined, Undefined),
   ContactUpdate(J1, <<>>, Undefined, <<"url">>, Undefined),
   ContactUpdate(J1, LongName, <<"Bob">>, Undefined, Undefined),
   ContactUpdate(P3, <<"Alice">>, Undefined, Undefined, Undefined),
   ContactUpdate(P3, NULL, Undefined, NULL, <<"hey">>),
   ContactUpdate(NULL, <<"Alice">>, Undefined, Undefined, Undefined)}

\* The store before the first update: empty, or holding the contact that a
\* message from J1 with push name "P" created.
ContactStores ==
  {EmptyStore,
   [EmptyStore EXCEPT !.contacts = ContactFindOrCreate(<<>>, J1, <<"P">>)]}

InitContacts ==
  /\ InitConn
  /\ store \in ContactStores
  /\ probe = [op |-> "contacts.update", before |-> store, seen |-> <<>>]

\* One contacts.update event is handled to its end.
ContactsUpdate(updates) ==
  /\ Len(probe.seen) + Len(updates) <= MaxUpdates
  /\ store' = ContactHandler_handleUpdate(store, updates)
  /\ probe' = [probe EXCEPT !.seen = @ \o updates]
  /\ UNCHANGED <<sock, reconnectAttempts, isConnecting, registeredHandlers,
                 orphans, calls, timers, ret, loggedOut, closures, backoff,
                 lastDelay>>

NextContacts ==
  \E updates \in SeqsUpTo(ContactEvents, 2) \ {<<>>} : ContactsUpdate(updates)

SpecContacts == InitContacts /\ [][NextContacts]_vars

(***************************************************************************)
(* One external chat id under observation: events that name it arrive      *)
(* through the message handler, the history handler and the chat handler.  *)
(***************************************************************************)
JidParts ==
  {<<>>, <<"1">>, AtGUs, AtBroadcast, AtUser, <<"@", "g", ".", "u">>,
   <<"g", ".", "u", "s">>}

Jids == {a \o b : a, b \in JidParts}

NoFlag == [present |-> FALSE, set |-> FALSE, val |-> FALSE]

NoNumber == [present |-> FALSE, set |-> FALSE, val |-> 0]

ChatUpdate(id, archive, pin, mute, name, unreadCount) ==
  [id |-> id, archive |-> archive, pin |-> pin, mute |-> mute, name |-> name,
   unreadCount |-> unreadCount]

ChatUpdates(jid) ==
  {ChatUpdate(jid, Some(TRUE), NoNumber, NoNumber, Undefined, NoNumber),
   ChatUpdate(jid, NoFlag, Some(1), Some(0), <<"group">>, Some(2)),
   ChatUpdate(jid, NoFlag, NoNumber, NoNumber, Undefined, NoNumber)}

InitJid ==
  /\ InitConn
  /\ InitStore
  /\ \E jid \in Jids : probe = [op |-> "jid", jid |-> jid, events |-> 0]

\* messages.upsert with one text message of the chat
JidUpsert(id) ==
  /\ probe.events < MaxJidEvents
  /\ store' = handleUpsert(store, <<Msg(id, probe.jid, Text(<<"h", "i">>), Num(1))>>)
  /\ probe' = [probe EXCEPT !.events = @ + 1]
  /\ UNCHANGED <<sock, reconnectAttempts, isConnecting, registeredHandlers,
                 orphans, calls, timers, ret, loggedOut, closures, backoff,
                 lastDelay>>

\* messaging-history.set with the chat, and possibly a message of it
JidHistory(name, msgs) ==
  /\ probe.events < MaxJidEvents
  /\ store' = handleHistorySet(store,
                 [chats |-> <<[id |-> probe.jid, name |-> name]>>,
                  contacts |-> <<>>, messages |-> msgs, isLatest |-> FALSE])
  /\ probe' = [probe EXCEPT !.events = @ + 1]
  /\ UNCHANGED <<sock, reconnectAttempts, isConnecting, registeredHandlers,
                 orphans, calls, timers, ret, loggedOut, closures, backoff,
                 lastDelay>>

\* chats.update with one item for the chat
JidChatUpdate(u) ==
  /\ probe.events < MaxJidEvents
  /\ store' = ChatHandler_handleUpdate(store, <<u>>)
  /\ probe' = [probe EXCEPT !.events = @ + 1]
  /\ UNCHANGED <<sock, reconnectAttempts, isConnecting, registeredHandlers,
                 orphans, calls, timers, ret, loggedOut, closures, backoff,
                 lastDelay>>

NextJid ==
  \/ \E id \in {M1, M2} : JidUpsert(id)
  \/ \E name \in {NULL, <<"N">>} :
       \E msgs \in {<<>>, <<Msg(M2, probe.jid, Image, Num(2))>>} : JidHistory(name, msgs)
  \/ \E u \in ChatUpdates(probe.jid) : JidChatUpdate(u)

SpecJid == InitJid /\ [][NextJid]_vars

(***************************************************************************)
(* One messaging-history.set event under observation.                      *)
(***************************************************************************)
ObservedChatItems ==
  {[id |-> J1, name |-> <<"N">>],
   [id |-> J2, name |-> NULL],
   [id |-> J2, name |-> LongName]}

ObservedContactItems ==
  {[id |-> P3, name |-> NULL, notify |-> <<"A">>],
   [id |-> J1, name |-> <<"C">>, notify |-> NULL],
   [id |-> J2, name |-> LongName, notify |-> <<"G">>]}

ObservedHistoryBatches ==
  [chats : SeqsUpTo(ObservedChatItems, MaxBatch),
   contacts : SeqsUpTo(ObservedContactItems, MaxBatch),
   messages : SeqsUpTo(HistoryMsgEvents, MaxBatch),
   isLatest : BOOLEAN]

\* handleHistorySet(h) runs to its end.
ObservedHistorySet(h) ==
  /\ probe = NoProbe
  /\ store' = handleHistorySet(store, h)
  /\ probe' = [op |-> "handleHistorySet", batch |-> h, before |-> store]
  /\ UNCHANGED <<sock, reconnectAttempts, isConnecting, registeredHandlers,
                 orphans, calls, timers, ret, loggedOut, closures, backoff,
                 lastDelay>>

NextHistory == \E h \in ObservedHistoryBatches : ObservedHistorySet(h)

SpecHistory == InitBatch /\ [][NextHistory]_vars

(***************************************************************************)
(* syncHistory: the importer script. It receives one history batch of 2    *)
(* chats, 2 contacts and 3 messages, all different, and polls for the end  *)
(* of the import every CheckIntervalMs. Times are ms since startTime.      *)
(***************************************************************************)
M3 == <<"m", "3">>

P4 == <<"4">> \o AtUser

\* Two items with different ids.
DistinctPairs(items) == {<<a, b>> : a, b \in items} \ {<<a, a>> : a \in items}

ImportChats ==
  {cs \in DistinctPairs(ObservedChatItems) : cs[1].id # cs[2].id}

ImportContacts ==
  DistinctPairs({[id |-> P3, name |-> NULL, notify |-> <<"A">>],
                 [id |-> J1, name |-> <<"C">>, notify |-> NULL],
                 [id |-> P4, name |-> <<"D">>, notify |-> NULL]})

ImportMessages ==
  {<<a, b, c>> :
     a \in {Msg(M1, J1, Text(<<"h", "i">>), Num(1))},
     b \in {Msg(M2, J2, Image, Num(2)), Msg(M2, P3, Text(<<"y", "o">>), Num(2))},
     c \in {Msg(M3, J1, Reply(<<"r", "e">>, M1), Num(2)),
            Msg(M3, J1, KeyDistribution, Num(2)),
            Msg(M3, J1, Text(<<"y", "o">>), [t |-> "invalid"])}}

ImportBatches ==
  [chats : ImportChats, contacts : ImportContacts, messages : ImportMessages,
   isLatest : BOOLEAN]

InitImport ==
  /\ InitConn
  /\ InitStore
  /\ probe = [op |-> "syncHistory", now |-> 0, checks |-> 0, lastBatchTime |-> 0,
              batchCount |-> 0, isComplete |-> FALSE, received |-> <<>>,
              running |-> FALSE, declared |-> "none"]

\* The handler of messaging-history.set starts: the batch is counted, the
\* time of its reception noted, and handleHistorySet awaited.
HistoryBatchReceived(h) ==
  /\ probe.declared = "none"
  /\ probe.batchCount = 0
  /\ probe' = [probe EXCEPT !.batchCount = @ + 1,
                            !.lastBatchTime = probe.now,
                            !.received = <<h>>,
                            !.running = TRUE]
  /\ UNCHANGED <<sock, reconnectAttempts, isConnecting, registeredHandlers,
                 orphans, calls, timers, ret, loggedOut, closures, backoff,
                 lastDelay, store>>

\* A handler that never sees the flag.
LatestFlagIgnored(h) == FALSE

\* data.isLatest
LatestFlag(h) == h.isLatest

\* handleHistorySet has settled (an error it threw is caught and logged), and
\* the handler looks at the isLatest flag.
HistoryBatchProcessed ==
  /\ probe.declared = "none"
  /\ probe.running
  /\ store' = handleHistorySet(store, probe.received[1])
  /\ probe' = [probe EXCEPT !.running = FALSE,
                            !.isComplete = @ \/ LatestFlag(probe.received[1])]
  /\ UNCHANGED <<sock, reconnectAttempts, isConnecting, registeredHandlers,
                 orphans, calls, timers, ret, loggedOut, closures, backoff,
                 lastDelay>>

\* A check that looks at the flag only.
CheckOutcomeFlagOnly(now, lastBatchTime, isComplete) ==
  IF isComplete THEN "isLatest" ELSE "none"

\* The outcome of one run of the setInterval callback at time now.
CheckOutcome(now, lastBatchTime, isComplete) ==
  LET elapsed == now
      idleTime == now - lastBatchTime
  IN IF isComplete \/ idleTime > IDLE_TIMEOUT_MS \/ elapsed > MAX_WAIT_MS
       THEN IF isComplete THEN "isLatest"
            ELSE IF idleTime > IDLE_TIMEOUT_MS THEN "idle"
            ELSE "maxWait"
       ELSE "none"

\* CheckIntervalMs have passed: the setInterval callback runs. Once it has
\* declared the end, the script disconnects and exits.
Check ==
  /\ probe.declared = "none"
  /\ probe.checks < MaxChecks
  /\ probe' = [probe EXCEPT
                 !.now = @ + CheckIntervalMs,
                 !.checks = @ + 1,
                 !.declared = CheckOutcome(probe.now + CheckIntervalMs,
                                           probe.lastBatchTime, probe.isComplete)]
  /\ UNCHANGED <<sock, reconnectAttempts, isConnecting, registeredHandlers,
                 orphans, calls, timers, ret, loggedOut, closures, backoff,
                 lastDelay, store>>

NextImport ==
  \/ \E h \in ImportBatches : HistoryBatchReceived(h)
  \/ HistoryBatchProcessed
  \/ Check

SpecImport == InitImport /\ [][NextImport]_vars

(***************************************************************************)
(* One group under observation: group-participants.update and              *)
(* groups.update events about it are handled one after the other.          *)
(***************************************************************************)
ParticipantActions == {"add", "remove", "promote", "demote", "modify"}

ParticipantEvents ==
  [id : {J2}, participants : SeqsUpTo({P3, P4}, MaxBatch) \ {<<>>},
   action : ParticipantActions]

GroupUpdate(id, subject, owner, announce, ephemeralDuration) ==
  [id |-> id, subject |-> subject, owner |-> owner, desc |-> Undefined,
   announce |-> announce, restrict |-> NoFlag, joinApprovalMode |-> NoFlag,
   memberAddMode |-> NoFlag, ephemeralDuration |-> ephemeralDuration]

GroupUpdates ==
  {GroupUpdate(J2, <<"S">>, Undefined, Some(TRUE), NoNumber),
   GroupUpdate(J2, NULL, Undefined, NullFlag, Some(7)),
   GroupUpdate(J2, <<"T">>, LongName, NoFlag, NoNumber),
   GroupUpdate(J2, Undefined, Undefined, NoFlag, NoNumber)}

\* The store before the first event: empty, or holding the Chat that a
\* message of the group created.
GroupStores ==
  {EmptyStore,
   [EmptyStore EXCEPT !.chats = ChatFindOrCreate(<<>>, J2, "group", NULL)]}

InitGroup ==
  /\ InitConn
  /\ store \in GroupStores
  /\ probe = [op |-> "none", event |-> <<>>]

\* One group-participants.update event is handled to its end.
GroupParticipantsUpdate(event) ==
  /\ store' = GroupHandler_handleParticipantsUpdate([store EXCEPT !.log = <<>>],
                                                    event)
  /\ probe' = [op |-> "group-participants.update", event |-> event]
  /\ UNCHANGED <<sock, reconnectAttempts, isConnecting, registeredHandlers,
                 orphans, calls, timers, ret, loggedOut, closures, backoff,
                 lastDelay>>
\* One groups.update event is handled to its end.
GroupsUpdate(updates) ==
  /\ store' = GroupHandler_handleGroupUpdate([store EXCEPT !.log = <<>>], updates)
  /\ probe' = [probe EXCEPT !.op = "groups.update", !.event = updates]
  /\ UNCHANGED <<sock, reconnectAttempts, isConnecting, registeredHandlers,
                 orphans, calls, timers, ret, loggedOut, closures, backoff,
                 lastDelay>>
NextGroup ==
  \/ \E event \in ParticipantEvents : GroupParticipantsUpdate(event)
  \/ \E u \in GroupUpdates : GroupsUpdate(<<u>>)

SpecGroup == InitGroup /\ [][NextGroup]_vars

(***************************************************************************)
(* One update under observation: a chats.update, contacts.update or        *)
(* groups.update item for an entity whose stored fields are all set.       *)
(***************************************************************************)
DeltaFlags == {NoFlag, NullFlag, Some(TRUE), Some(FALSE)}

DeltaNumbers == {NoNumber, NullNumber, Some(0), Some(5)}

DeltaStrings == {Undefined, NULL, <<"x">>}

DeltaChatUpdates ==
  {ChatUpdate(J2, archive, pin, mute, name, unreadCount) :
     archive \in DeltaFlags, pin \in DeltaNumbers, mute \in {NoNumber, Some(5)},
     name \in DeltaStrings, unreadCount \in DeltaNumbers}

DeltaContactUpdates ==
  {ContactUpdate(P3, Undefined, Undefined, imgUrl, status) :
     imgUrl \in DeltaStrings, status \in DeltaStrings}

DeltaGroupUpdates ==
  {[GroupUpdate(J2, subject, Undefined, announce, ephemeralDuration)
      EXCEPT !.desc = desc] :
     subject \in DeltaStrings, desc \in DeltaStrings, announce \in DeltaFlags,
     ephemeralDuration \in DeltaNumbers}

\* A group Chat, its GroupMetadata and a Contact, none of whose fields has
\* the value of its default.
DeltaStore ==
  [EmptyStore EXCEPT
     !.chats = <<[NewChat(J2, "group", <<"G">>) EXCEPT
                    !.is_archived = TRUE, !.is_pinned = TRUE, !.is_muted = TRUE,
                    !.unread_count = 3]>>,
     !.contacts = <<NewContact(P3, <<"A">>, <<"a">>, <<"b">>)>>,
     !.groups = <<[NewGroupMetadata(1) EXCEPT
                     !.subject = <<"G">>, !.description = <<"d">>,
                     !.announce = Some(TRUE), !.ephemeral_duration = Some(9)]>>]

InitDelta ==
  /\ InitConn
  /\ store = DeltaStore
  /\ probe = [op |-> "none", update |-> <<>>]

\* A chats.update event with one item is handled.
DeltaChat(u) ==
  /\ probe.op = "none"
  /\ store' = ChatHandler_handleUpdate(store, <<u>>)
  /\ probe' = [op |-> "chats.update", update |-> u]
  /\ UNCHANGED <<sock, reconnectAttempts, isConnecting, registeredHandlers,
                 orphans, calls, timers, ret, loggedOut, closures, backoff,
                 lastDelay>>
\* A contacts.update event with one item is handled.
DeltaContact(u) ==
  /\ probe.op = "none"
  /\ store' = ContactHandler_handleUpdate(store, <<u>>)
  /\ probe' = [op |-> "contacts.update", update |-> u]
  /\ UNCHANGED <<sock, reconnectAttempts, isConnecting, registeredHandlers,
                 orphans, calls, timers, ret, loggedOut, closures, backoff,
                 lastDelay>>
\* A groups.update event with one item is handled.
DeltaGroup(u) ==
  /\ probe.op = "none"
  /\ store' = GroupHandler_handleGroupUpdate(store, <<u>>)
  /\ probe' = [op |-> "groups.update", update |-> u]
  /\ UNCHANGED <<sock, reconnectAttempts, isConnecting, registeredHandlers,
                 orphans, calls, timers, ret, loggedOut, closures, backoff,
                 lastDelay>>
NextDelta ==
  \/ \E u \in DeltaChatUpdates : DeltaChat(u)
  \/ \E u \in DeltaContactUpdates : DeltaContact(u)
  \/ \E u \in DeltaGroupUpdates : DeltaGroup(u)

SpecDelta == InitDelta /\ [][NextDelta]_vars

(***************************************************************************)
(* One event under observation, handled while the database is reachable or *)
(* unreachable; some of the events carry values that the store rejects.    *)
(***************************************************************************)
FailStores ==
  {[S EXCEPT !.down = d] : S \in GroupStores, d \in BOOLEAN}

FailChatUpdates ==
  ChatUpdates(J2)
    \cup {ChatUpdate(J2, NoFlag, NoNumber, NoNumber, LongName, NoNumber),
          ChatUpdate(NULL, NoFlag, NoNumber, NoNumber, Undefined, NoNumber)}

FailParticipantEvents ==
  ParticipantEvents
    \cup {[id |-> J2, participants |-> <<LongName, P3>>, action |-> "add"]}

InitFail ==
  /\ InitConn
  /\ store \in FailStores
  /\ probe = [op |-> "none", before |-> store]

\* The event is handled to its end or until the handler throws.
Handled(op, after) ==
  /\ probe.op = "none"
  /\ store' = after
  /\ probe' = [probe EXCEPT !.op = op]
  /\ UNCHANGED <<sock, reconnectAttempts, isConnecting, registeredHandlers,
                 orphans, calls, timers, ret, loggedOut, closures, backoff,
                 lastDelay>>
FailUpsert(batch) == Handled("messages.upsert", handleUpsert(store, batch))

FailHistory(h) == Handled("messaging-history.set", handleHistorySet(store, h))

FailChats(updates) ==
  Handled("chats.update", ChatHandler_handleUpdate(store, updates))

FailContacts(updates) ==
  Handled("contacts.update", ContactHandler_handleUpdate(store, updates))

FailGroups(updates) ==
  Handled("groups.update", GroupHandler_handleGroupUpdate(store, updates))

FailParticipants(event) ==
  Handled("group-participants.update",
          GroupHandler_handleParticipantsUpdate(store, event))

NextFail ==
  \/ \E batch \in Batches : FailUpsert(batch)
  \/ \E h \in HistoryBatches : FailHistory(h)
  \/ \E updates \in SeqsUpTo(FailChatUpdates, MaxBatch) : FailChats(updates)
  \/ \E updates \in SeqsUpTo(ContactEvents, MaxBatch) : FailContacts(updates)
  \/ \E updates \in SeqsUpTo(GroupUpdates, MaxBatch) : FailGroups(updates)
  \/ \E event \in FailParticipantEvents : FailParticipants(event)

SpecFail == InitFail /\ [][NextFail]_vars

(***************************************************************************)
(* Handlers of different event types running concurrently on events about  *)
(* the same group chat J2, its sender P3 and the message M1. A handler      *)
(* gives way to the others at each await, so each store call is one step.  *)
(* The history handler holds a transaction: the rows it inserts are        *)
(* invisible to the others until it commits, and an insertion of the same  *)
(* key, or a write to a row it has written, waits for its end.             *)
(***************************************************************************)
RaceMsg == Msg(M1, J2, Text(<<"h", "i">>), Num(1))

RaceChatUpdate == ChatUpdate(J2, Some(TRUE), NoNumber, NoNumber, Undefined, NoNumber)

RaceContactUpdate ==
  ContactUpdate(P3, Undefined, Undefined, Undefined, <<"busy">>)

RaceGroupUpdate == GroupUpdate(J2, <<"S">>, Undefined, NoFlag, NoNumber)

RaceParticipants == [id |-> J2, participants |-> <<P3>>, action |-> "add"]

NoTransaction ==
  [open |-> FALSE, chats |-> <<>>, contacts |-> <<>>, inserted |-> {},
   renamed |-> {}]

\* The handlers that have been dispatched, each at its first store call.
\* contactName is the name of P3 in the history batch; creator is the
\* handler that inserted the Chat.
InitRace ==
  /\ InitConn
  /\ InitStore
  /\ \E contactName \in {<<"A">>, LongName} :
       probe = [op |-> "race",
                pc |-> [upsert |-> "chat", history |-> "begin",
                        chats |-> "find", contacts |-> "findOrCreate",
                        groups |-> "find", participants |-> "find"],
                chatName |-> [upsert |-> NULL, history |-> NULL],
                contactName |-> contactName,
                creator |-> "none",
                tx |-> NoTransaction]

\* An insertion that never waits, as on a table without the unique index.
NeverBlocked(tx, table, key) == FALSE

\* The unique index of the table makes an insertion of key wait for the end
\* of a transaction that has inserted the same key.
InsertBlocked(tx, table, key) == tx.open /\ <<table, key>> \in tx.inserted

\* A write to a row waits for the end of a transaction that has written it.
RowLocked(tx, key) == tx.open /\ key \in tx.renamed

\* The log entries that report a failure.
Failures(log) == SelectSeq(log, LAMBDA e : e.kind \in {"failed", "thrown"})

Quiet(S) == [S EXCEPT !.log = Failures(@)]

RaceStep(handler, to, after) ==
  /\ store' = Quiet(after)
  /\ probe' = [probe EXCEPT !.pc[handler] = to]
  /\ UNCHANGED <<sock, reconnectAttempts, isConnecting, registeredHandlers,
                 orphans, calls, timers, ret, loggedOut, closures, backoff,
                 lastDelay>>
\* Chat.findOrCreate of the message handler h (the messages.upsert handler,
\* or the message loop of the history handler)
MessageChat(h) ==
  /\ probe.pc[h] = "chat"
  /\ ~InsertBlocked(probe.tx, "chats", RaceMsg.remoteJid)
  /\ LET chats1 == ChatFindOrCreate(store.chats, RaceMsg.remoteJid,
                                    chatTypeFromJid(RaceMsg.remoteJid), NULL)
         pk == FindRow(chats1, "chat_id", RaceMsg.remoteJid)
     IN /\ store' = [store EXCEPT !.chats = chats1]
        /\ probe' = [probe EXCEPT
                       !.pc[h] = "contact",
                       !.chatName[h] = chats1[pk].name,
                       !.creator = IF chats1 = store.chats THEN @ ELSE h]
  /\ UNCHANGED <<sock, reconnectAttempts, isConnecting, registeredHandlers,
                 orphans, calls, timers, ret, loggedOut, closures, backoff,
                 lastDelay>>
\* Contact.findOrCreate of the message handler h
MessageContact(h) ==
  /\ probe.pc[h] = "contact"
  /\ ~InsertBlocked(probe.tx, "contacts", RaceMsg.participant)
  /\ RaceStep(h, "message",
              [store EXCEPT !.contacts = ContactFindOrCreate(@, RaceMsg.participant,
                                                             RaceMsg.pushName)])

\* Message.findOrCreate of the message handler h, with the trigger that the
\* insertion fires on the row of the Chat
MessageInsert(h) ==
  /\ probe.pc[h] = "message"
  /\ LET pk == FindRow(store.chats, "chat_id", RaceMsg.remoteJid)
         row == MessageRow(RaceMsg, pk, NoRow)
     IN IF MessageExists(store.messages, RaceMsg.id)
          THEN RaceStep(h, "done", store)
          ELSE /\ ~RowLocked(probe.tx, RaceMsg.remoteJid)
               /\ RaceStep(h, "preview",
                           [store EXCEPT
                              !.chats[pk] = update_chat_last_message(@, row),
                              !.messages = Append(@, row)])

\* chat.update(chatUpdate) of the message handler h
MessagePreview(h) ==
  /\ probe.pc[h] = "preview"
  /\ ~RowLocked(probe.tx, RaceMsg.remoteJid)
  /\ LET pk == FindRow(store.chats, "chat_id", RaceMsg.remoteJid) IN
     RaceStep(h, "done",
              [store EXCEPT !.chats[pk] = ChatAfterInsert(@, probe.chatName[h],
                                                          RaceMsg)])

\* sequelize.transaction()
HistoryBegin ==
  /\ probe.pc.history = "begin"
  /\ probe' = [probe EXCEPT !.pc.history = "chats", !.tx.open = TRUE]
  /\ UNCHANGED <<sock, reconnectAttempts, isConnecting, registeredHandlers,
                 orphans, calls, timers, ret, loggedOut, closures, backoff,
                 lastDelay, store>>

\* The chat loop of the history handler, for the one chat J2 named "N", under
\* the transaction: the row is inserted, or found and named if it has no
\* name.
HistoryChat ==
  /\ probe.pc.history = "chats"
  /\ LET pk == FindRow(store.chats, "chat_id", J2) IN
     probe' = [probe EXCEPT
                 !.pc.history = "contacts",
                 !.creator = IF pk = NoRow THEN "transaction" ELSE @,
                 !.tx = IF pk = NoRow
                          THEN [@ EXCEPT
                                  !.chats = <<NewChat(J2, historyChatTypeFromJid(J2),
                                                      <<"N">>)>>,
                                  !.inserted = @ \cup {<<"chats", J2>>}]
                        ELSE IF ~Truthy(store.chats[pk].name)
                          THEN [@ EXCEPT !.renamed = @ \cup {J2}]
                        ELSE @]
  /\ UNCHANGED <<sock, reconnectAttempts, isConnecting, registeredHandlers,
                 orphans, calls, timers, ret, loggedOut, closures, backoff,
                 lastDelay, store>>

\* The contact loop of the history handler, for the one contact P3, under the
\* transaction. A rejected name throws: the catch block rolls back and
\* rethrows.
HistoryContact ==
  /\ probe.pc.history = "contacts"
  /\ LET pk == FindRow(store.contacts, "contact_id", P3) IN
     IF pk = NoRow /\ probe.contactName = LongName
       THEN /\ store' = Rethrown(store, NULL)
            /\ probe' = [probe EXCEPT !.pc.history = "thrown",
                                      !.tx = NoTransaction]
     ELSE /\ store' = store
          /\ probe' = [probe EXCEPT
                         !.pc.history = "commit",
                         !.tx = IF pk # NoRow THEN @
                                ELSE [@ EXCEPT
                                        !.contacts = <<NewContact(P3, probe.contactName,
                                                                  NULL, NULL)>>,
                                        !.inserted = @ \cup {<<"contacts", P3>>}]]
  /\ UNCHANGED <<sock, reconnectAttempts, isConnecting, registeredHandlers,
                 orphans, calls, timers, ret, loggedOut, closures, backoff,
                 lastDelay>>
\* transaction.commit(): the writes of the transaction reach the store.
HistoryCommit ==
  /\ probe.pc.history = "commit"
  /\ store' = [store EXCEPT
                 !.chats = [i \in DOMAIN @ |->
                              IF @[i].chat_id \in probe.tx.renamed
                                THEN [@[i] EXCEPT !.name = <<"N">>] ELSE @[i]]
                           \o probe.tx.chats,
                 !.contacts = @ \o probe.tx.contacts]
  /\ probe' = [probe EXCEPT !.pc.history = "chat", !.tx = NoTransaction]
  /\ UNCHANGED <<sock, reconnectAttempts, isConnecting, registeredHandlers,
                 orphans, calls, timers, ret, loggedOut, closures, backoff,
                 lastDelay>>
\* Chat.findOne of the chats.update handler
ChatsFind ==
  /\ probe.pc.chats = "find"
  /\ RaceStep("chats",
              IF FindRow(store.chats, "chat_id", J2) = NoRow THEN "notFound"
              ELSE "update", store)

\* chat.update(changes) of the chats.update handler
ChatsWrite ==
  /\ probe.pc.chats = "update"
  /\ ~RowLocked(probe.tx, J2)
  /\ RaceStep("chats", "done", ChatUpdateOne(store, RaceChatUpdate))

\* Contact.findOrCreate of the contacts.update handler
ContactsFindOrCreate ==
  /\ probe.pc.contacts = "findOrCreate"
  /\ ~InsertBlocked(probe.tx, "contacts", P3)
  /\ IF FindRow(store.contacts, "contact_id", P3) = NoRow
       THEN RaceStep("contacts", "done", ContactUpdateOne(store, RaceContactUpdate))
       ELSE RaceStep("contacts", "update", store)

\* contact.update(changes) of the contacts.update handler
ContactsWrite ==
  /\ probe.pc.contacts = "update"
  /\ RaceStep("contacts", "done", ContactUpdateOne(store, RaceContactUpdate))

\* Chat.findOne of the groups.update handler
GroupsFind ==
  /\ probe.pc.groups = "find"
  /\ RaceStep("groups",
              IF FindRow(store.chats, "chat_id", J2) = NoRow THEN "notFound"
              ELSE "rename", store)

\* chat.update({ name: update.subject }) of the groups.update handler
GroupsRename ==
  /\ probe.pc.groups = "rename"
  /\ ~RowLocked(probe.tx, J2)
  /\ LET pk == FindRow(store.chats, "chat_id", J2) IN
     RaceStep("groups", "metadata",
              [store EXCEPT !.chats[pk].name = RaceGroupUpdate.subject])

\* GroupMetadata.findOrCreate of the groups.update handler: the row is
\* created with the changes, or found.
GroupsMetadata ==
  /\ probe.pc.groups = "metadata"
  /\ LET pk == FindRow(store.chats, "chat_id", J2) IN
     IF FindRow(store.groups, "chat_id", pk) = NoRow
       THEN RaceStep("groups", "done",
                     [store EXCEPT
                        !.groups = GroupMetadataWrite(@, pk,
                                                      GroupChanges(RaceGroupUpdate))])
       ELSE RaceStep("groups", "update", store)

\* groupMeta.update(changes) of the groups.update handler
GroupsWrite ==
  /\ probe.pc.groups = "update"
  /\ LET pk == FindRow(store.chats, "chat_id", J2) IN
     RaceStep("groups", "done",
              [store EXCEPT
                 !.groups = GroupMetadataWrite(@, pk, GroupChanges(RaceGroupUpdate))])

\* Chat.findOne of the group-participants.update handler
ParticipantsFind ==
  /\ probe.pc.participants = "find"
  /\ RaceStep("participants",
              IF FindRow(store.chats, "chat_id", J2) = NoRow THEN "notFound"
              ELSE "metadata", store)

\* GroupMetadata.findOrCreate of the group-participants.update handler
ParticipantsMetadata ==
  /\ probe.pc.participants = "metadata"
  /\ LET pk == FindRow(store.chats, "chat_id", J2) IN
     RaceStep("participants", "add",
              [store EXCEPT !.groups = GroupMetadataFindOrCreate(@, pk)])

\* GroupParticipant.findOrCreate of the group-participants.update handler
ParticipantsAdd ==
  /\ probe.pc.participants = "add"
  /\ RaceStep("participants", "done",
              GroupHandler_handleParticipantsUpdate(store, RaceParticipants))

NextRace ==
  \/ \E h \in {"upsert", "history"} :
       MessageChat(h) \/ MessageContact(h) \/ MessageInsert(h) \/ MessagePreview(h)
  \/ HistoryBegin \/ HistoryChat \/ HistoryContact \/ HistoryCommit
  \/ ChatsFind \/ ChatsWrite
  \/ ContactsFindOrCreate \/ ContactsWrite
  \/ GroupsFind \/ GroupsRename \/ GroupsMetadata \/ GroupsWrite
  \/ ParticipantsFind \/ ParticipantsMetadata \/ ParticipantsAdd

SpecRace == InitRace /\ [][NextRace]_vars

(***************************************************************************)
(* The connection manager up to one creds.update event of one of its       *)
(* sockets: the probe keeps which socket emitted it and how many times the *)
(* save callback was called for it.                                        *)
(***************************************************************************)
InitCreds ==
  /\ InitConn
  /\ InitStore
  /\ probe = [op |-> "none", saved |-> 0, from |-> "none"]

\* A live socket emits creds.update: each of its creds.update listeners runs.
CredsUpdate(s, origin) ==
  /\ IsLive(s)
  /\ probe' = [op |-> "creds.update", saved |-> s.saveCreds, from |-> origin]
  /\ UNCHANGED <<sock, reconnectAttempts, isConnecting, registeredHandlers,
                 orphans, calls, timers, ret, loggedOut, closures, backoff,
                 lastDelay, store>>
\* No creds.update event has been observed yet.
Unobserved == probe.op = "none"

NextCreds ==
  \/ Unobserved /\ connect
  \/ Unobserved /\ \E by \in CallOrigins : connectCreate(by)
  \/ Unobserved /\ \E by \in CallOrigins : connectFail(by)
  \/ Unobserved /\ OnOpenHeld
  \/ Unobserved /\ \E o \in BagToSet(orphans) : OnOpenOrphan(o)
  \/ Unobserved /\ \E lo \in BOOLEAN : OnCloseHeld(lo)
  \/ Unobserved /\ \E o \in BagToSet(orphans), lo \in BOOLEAN : OnCloseOrphan(o, lo)
  \/ Unobserved /\ \E t \in BagToSet(timers) : TimerFire(t)
  \/ Unobserved /\ \E report \in BOOLEAN : disconnect(report)
  \/ Unobserved /\ CredsUpdate(sock, IF closures = 0 THEN "held" ELSE "afterClosure")
  \/ Unobserved /\ \E o \in BagToSet(orphans) : CredsUpdate(o, "replaced")

SpecCreds == InitCreds /\ [][NextCreds]_vars

(***************************************************************************)
(* One long history batch under observation: its length is around a        *)
(* multiple of MESSAGE_BATCH_SIZE, and the store may reject one of its      *)
(* messages.                                                               *)
(***************************************************************************)
\* The id of the k-th message of a long batch.
LongId(k) == [i \in 1..k |-> "x"]

LongLengths ==
  {q * MESSAGE_BATCH_SIZE + r : q \in 0..MaxSlices, r \in {0, 1, MESSAGE_BATCH_SIZE - 1}}

\* A batch of n messages of the group J2 sent by P3, listed as a chat named
\* "N" and a contact named "H"; the message at position bad has no valid
\* timestamp.
LongBatch(n, bad, isLatest) ==
  [chats |-> <<[id |-> J2, name |-> <<"N">>]>>,
   contacts |-> <<[id |-> P3, name |-> <<"H">>, notify |-> NULL]>>,
   messages |-> [k \in 1..n |->
                   Msg(LongId(k), J2, Text(<<"h", "i">>),
                       IF k = bad THEN [t |-> "invalid"] ELSE Num(1))],
   isLatest |-> isLatest]

InitLong ==
  /\ InitConn
  /\ InitStore
  /\ \E n \in LongLengths, isLatest \in BOOLEAN :
       \E bad \in {0, 1, n, MESSAGE_BATCH_SIZE, MESSAGE_BATCH_SIZE + 1} :
         /\ bad <= n
         /\ probe = [op |-> "none", batch |-> LongBatch(n, bad, isLatest),
                     next |-> 1]

\* handleHistorySet up to transaction.commit(): the chats and the contacts of
\* the batch. No name of a long batch is too long for the store.
LongTransaction ==
  /\ probe.op = "none"
  /\ store' = Commit(store, HistoryContacts(HistoryChats(Begin(store),
                                                          probe.batch.chats),
                                            probe.batch.contacts))
  /\ probe' = [probe EXCEPT !.op = "committed"]
  /\ UNCHANGED <<sock, reconnectAttempts, isConnecting, registeredHandlers,
                 orphans, calls, timers, ret, loggedOut, closures, backoff,
                 lastDelay>>
\* One iteration of the message loop of handleHistorySet: the awaited
\* handleUpsert call for the next sub-batch.
LongSlice ==
  /\ probe.op = "committed"
  /\ probe.next <= Len(Slices(probe.batch.messages))
  /\ store' = handleUpsert(store, Slices(probe.batch.messages)[probe.next])
  /\ probe' = [probe EXCEPT !.next = @ + 1]
  /\ UNCHANGED <<sock, reconnectAttempts, isConnecting, registeredHandlers,
                 orphans, calls, timers, ret, loggedOut, closures, backoff,
                 lastDelay>>
\* The end of handleHistorySet, after the last sub-batch.
LongEnd ==
  /\ probe.op = "committed"
  /\ probe.next > Len(Slices(probe.batch.messages))
  /\ store' = IF probe.batch.isLatest
                THEN [store EXCEPT !.log = Append(@, LogEntry("historyComplete", NULL))]
                ELSE store
  /\ probe' = [probe EXCEPT !.op = "done"]
  /\ UNCHANGED <<sock, reconnectAttempts, isConnecting, registeredHandlers,
                 orphans, calls, timers, ret, loggedOut, closures, backoff,
                 lastDelay>>
NextLong ==
  \/ LongTransaction
  \/ LongSlice
  \/ LongEnd

SpecLong == InitLong /\ [][NextLong]_vars

(***************************************************************************)
(* One history batch delivered twice. The first delivery succeeds, or is    *)
(* aborted: the database is unreachable when the transaction is to begin,   *)
(* or the connection to it is lost after the chat loop.                     *)
(***************************************************************************)
RedeliveredChatItems ==
  {[id |-> J1, name |-> <<"N">>], [id |-> J1, name |-> NULL],
   [id |-> J2, name |-> <<"G">>]}

RedeliveredContactItems ==
  {<<>>, <<[id |-> P3, name |-> NULL, notify |-> <<"A">>]>>,
   <<[id |-> J1, name |-> <<"C">>, notify |-> NULL]>>}

RedeliveredBatches ==
  [chats : SeqsUpTo(RedeliveredChatItems, MaxBatch),
   contacts : RedeliveredContactItems,
   messages : SeqsUpTo(MsgEvents, MaxBatch),
   isLatest : {TRUE}]

InitRedeliver ==
  /\ InitConn
  /\ store \in InitialStores
  /\ \E h \in RedeliveredBatches :
       probe = [op |-> "none", batch |-> h, first |-> "none",
                once |-> handleHistorySet(store, h)]

\* The first or the second delivery of the batch, handled to its end.
Deliver ==
  /\ probe.op \in {"none", "first"}
  /\ store' = handleHistorySet(store, probe.batch)
  /\ probe' = IF probe.op = "none"
                THEN [probe EXCEPT !.op = "first", !.first = "delivered"]
                ELSE [probe EXCEPT !.op = "second"]
  /\ UNCHANGED <<sock, reconnectAttempts, isConnecting, registeredHandlers,
                 orphans, calls, timers, ret, loggedOut, closures, backoff,
                 lastDelay>>
\* The first delivery while the database is unreachable.
DeliverUnreachable ==
  /\ probe.op = "none"
  /\ store' = [handleHistorySet([store EXCEPT !.down = TRUE], probe.batch)
                 EXCEPT !.down = FALSE]
  /\ probe' = [probe EXCEPT !.op = "first", !.first = "unreachable"]
  /\ UNCHANGED <<sock, reconnectAttempts, isConnecting, registeredHandlers,
                 orphans, calls, timers, ret, loggedOut, closures, backoff,
                 lastDelay>>
\* The first delivery when the connection to the database is lost after the
\* chat loop: the catch block rolls back, logs and rethrows.
DeliverAborted ==
  /\ probe.op = "none"
  /\ LET T == HistoryChats(Begin(store), probe.batch.chats)
     IN store' = Rethrown([Rollback(store, T) EXCEPT
                             !.log = Append(@, LogEntry("rolledBack", NULL))], NULL)
  /\ probe' = [probe EXCEPT !.op = "first", !.first = "rolledBack"]
  /\ UNCHANGED <<sock, reconnectAttempts, isConnecting, registeredHandlers,
                 orphans, calls, timers, ret, loggedOut, closures, backoff,
                 lastDelay>>
NextRedeliver ==
  \/ Deliver
  \/ DeliverUnreachable
  \/ DeliverAborted

SpecRedeliver == InitRedeliver /\ [][NextRedeliver]_vars

(***************************************************************************)
(* One message event under observation, handled statement by statement:    *)
(* the insertion of the Message fires the trigger on messages, and the     *)
(* chat update that follows is a statement of its own, under no            *)
(* transaction; the database may become unreachable before either.         *)
(***************************************************************************)
\* A body one character longer than the preview.
LongBody == [i \in 1..(PreviewLength + 1) |-> "b"]

PreviewEvents ==
  {Msg(M2, J1, Text(LongBody), Num(5)),
   Msg(M2, J1, Text(<<"h", "i">>), Num(5)),
   Msg(M2, J1, Text(<<>>), Num(5)),
   Msg(M2, J1, Image, Num(5)),
   Msg(M2, J2, Image, Num(5)),
   Msg(M2, J2, Text(<<"y", "o">>), [t |-> "absent"]),
   Msg(M2, J1, Reply(<<"r", "e">>, M1), [t |-> "long", low |-> 2, high |-> 0]),
   Msg(M1, J1, Text(LongBody), Num(5)),
   Msg(M1, J2, Image, Num(5)),
   Msg(M2, J1, Text(<<"y", "o">>), [t |-> "invalid"]),
   Msg(M2, J1, KeyDistribution, Num(5)),
   Msg(NULL, J1, Text(<<"h", "i">>), Num(5)),
   Msg(M2, NULL, Image, Num(5))}

InitPreview ==
  /\ InitConn
  /\ store \in InitialStores
  /\ \E msg \in PreviewEvents :
       probe = [pc |-> "start", msg |-> msg, before |-> store, chatName |-> NULL]

PreviewStep(pc, after) ==
  /\ store' = after
  /\ probe' = [probe EXCEPT !.pc = pc]
  /\ UNCHANGED <<sock, reconnectAttempts, isConnecting, registeredHandlers,
                 orphans, calls, timers, ret, loggedOut, closures, backoff,
                 lastDelay>>
\* handleUpsert on the one message, up to and including
\* Message.findOrCreate: an insertion fires the trigger.
PreviewInsert ==
  /\ probe.pc = "start"
  /\ LET msg == probe.msg
         messageType == resolveMessageType(msg.content)
         chats1 == ChatFindOrCreate(store.chats, msg.remoteJid,
                                    chatTypeFromJid(msg.remoteJid), NULL)
         chatPk == FindRow(chats1, "chat_id", msg.remoteJid)
         senderId == IF msg.participant # NULL THEN msg.participant
                     ELSE msg.remoteJid
         contacts1 == ContactFindOrCreate(store.contacts, senderId, msg.pushName)
         row == MessageRow(msg, chatPk,
                           ResolveQuoted(store.messages, quotedStanzaId(msg.content)))
         S1 == [store EXCEPT !.chats = chats1, !.contacts = contacts1]
     IN IF msg.remoteJid \in {NULL, <<>>} \/ msg.id \in {NULL, <<>>}
          THEN PreviewStep("done", [store EXCEPT
                                      !.log = Append(@, LogEntry("skipped", msg.id))])
        ELSE IF IsProtocol(messageType)
          THEN PreviewStep("done", [store EXCEPT
                                      !.log = Append(@, LogEntry("protocol", msg.id))])
        ELSE IF store.down
          THEN PreviewStep("done", Caught(store, msg.id))
        ELSE IF MessageExists(store.messages, msg.id)
          THEN PreviewStep("done", [S1 EXCEPT
                                      !.log = Append(@, LogEntry("duplicate", msg.id))])
        ELSE IF InsertRejected(store.messages, row)
          THEN PreviewStep("done", Caught(S1, msg.id))
        ELSE /\ store' = [S1 EXCEPT
                            !.chats[chatPk] = update_chat_last_message(@, row),
                            !.messages = Append(@, row)]
             /\ probe' = [probe EXCEPT !.pc = "created",
                                       !.chatName = chats1[chatPk].name]
             /\ UNCHANGED <<sock, reconnectAttempts, isConnecting,
                            registeredHandlers, orphans, calls, timers, ret,
                            loggedOut, closures, backoff, lastDelay>>

\* if (created) { ... await chat.update(chatUpdate) }: a statement of its own,
\* which throws into the catch block when the database is unreachable.
PreviewUpdate ==
  /\ probe.pc = "created"
  /\ LET pk == FindRow(store.chats, "chat_id", probe.msg.remoteJid) IN
     IF store.down
       THEN PreviewStep("done", Caught(store, probe.msg.id))
       ELSE PreviewStep("done",
                        [store EXCEPT
                           !.chats[pk] = ChatAfterInsert(@, probe.chatName, probe.msg),
                           !.log = Append(@, LogEntry("saved", probe.msg.id))])

\* The database becomes unreachable while the event is being handled.
Outage ==
  /\ probe.pc # "done"
  /\ ~store.down
  /\ store' = [store EXCEPT !.down = TRUE]
  /\ UNCHANGED <<sock, reconnectAttempts, isConnecting, registeredHandlers,
                 orphans, calls, timers, ret, loggedOut, closures, backoff,
                 lastDelay, probe>>

NextPreview ==
  \/ PreviewInsert
  \/ PreviewUpdate
  \/ Outage

SpecPreview == InitPreview /\ [][NextPreview]_vars

(***************************************************************************)
(* Chat names under message ingestion and history import: message events   *)
(* with and without push-name, inbound and outbound, for a private and a    *)
(* group chat, and history batches that name the chats or do not.           *)
(***************************************************************************)
WithSender(msg, pushName, fromMe) ==
  [msg EXCEPT !.pushName = pushName, !.fromMe = fromMe]

NameMsgEvents ==
  {WithSender(Msg(M1, J1, Text(<<"h", "i">>), Num(1)), <<"A">>, FALSE),
   WithSender(Msg(M1, J1, Text(<<"h", "i">>), Num(1)), NULL, FALSE),
   WithSender(Msg(M2, J1, Text(<<"y", "o">>), Num(2)), <<"B">>, TRUE),
   WithSender(Msg(M2, J1, Text(<<"y", "o">>), [t |-> "invalid"]), <<"B">>, FALSE),
   WithSender(Msg(M3, J1, Image, Num(3)), <<"B">>, FALSE),
   WithSender(Msg(M2, J2, Image, Num(2)), <<"A">>, FALSE)}

NameChatItems ==
  {<<>>, <<[id |-> J1, name |-> <<"N">>]>>, <<[id |-> J1, name |-> NULL]>>,
   <<[id |-> J1, name |-> <<"X">>]>>, <<[id |-> J2, name |-> <<"G">>]>>,
   <<[id |-> J1, name |-> <<>>], [id |-> J1, name |-> <<"N">>]>>}

NameHistoryBatches ==
  [chats : NameChatItems, contacts : {<<>>},
   messages : {<<>>, <<WithSender(Msg(M3, J1, Image, Num(3)), <<"B">>, FALSE)>>},
   isLatest : {FALSE}]

InitName ==
  /\ InitConn
  /\ InitStore
  /\ probe = [op |-> "none", messages |-> <<>>, chats |-> <<>>]

\* messages.upsert with one message, handled to its end
NameUpsert(msg) ==
  /\ store' = handleUpsert([store EXCEPT !.log = <<>>], <<msg>>)
  /\ probe' = [op |-> "messages.upsert", messages |-> <<msg>>, chats |-> <<>>]
  /\ UNCHANGED <<sock, reconnectAttempts, isConnecting, registeredHandlers,
                 orphans, calls, timers, ret, loggedOut, closures, backoff,
                 lastDelay>>
\* messaging-history.set, handled to its end
NameHistorySet(h) ==
  /\ store' = handleHistorySet([store EXCEPT !.log = <<>>], h)
  /\ probe' = [op |-> "messaging-history.set", messages |-> h.messages,
               chats |-> h.chats]
  /\ UNCHANGED <<sock, reconnectAttempts, isConnecting, registeredHandlers,
                 orphans, calls, timers, ret, loggedOut, closures, backoff,
                 lastDelay>>
NextName ==
  \/ \E msg \in NameMsgEvents : NameUpsert(msg)
  \/ \E h \in NameHistoryBatches : NameHistorySet(h)

SpecName == InitName /\ [][NextName]_vars

(***************************************************************************)
(* Group and participant events whose id is the id of a group chat, of a   *)
(* private chat or of a broadcast chat, on a store that message ingestion   *)
(* has filled with those chats. One event is under observation.            *)
(***************************************************************************)
JB == <<"s", "t", "a", "t", "u", "s">> \o AtBroadcast

KindJids == {J1, J2, JB}

RECURSIVE ChatsOf(_)
ChatsOf(jids) ==
  IF jids = <<>> THEN <<>>
  ELSE ChatFindOrCreate(ChatsOf(Tail(jids)), Head(jids),
                        chatTypeFromJid(Head(jids)), NULL)

\* No chat; the three chats; the three chats and the metadata of the group.
KindStores ==
  {EmptyStore,
   [EmptyStore EXCEPT !.chats = ChatsOf(<<J1, J2, JB>>)],
   [EmptyStore EXCEPT !.chats = ChatsOf(<<J1, J2, JB>>),
                      !.groups = GroupMetadataFindOrCreate(
                                   <<>>, FindRow(ChatsOf(<<J1, J2, JB>>), "chat_id", J2))]}

KindGroupUpdates ==
  {GroupUpdate(id, subject, Undefined, announce, NoNumber) :
     id \in KindJids, subject \in {<<"S">>, NULL, Undefined},
     announce \in {NoFlag, Some(TRUE)}}

KindParticipantEvents ==
  [id : KindJids, participants : {<<>>, <<P3>>, <<P3, P4>>},
   action : {"add", "remove", "approve"}]

InitKind ==
  /\ InitConn
  /\ store \in KindStores
  /\ probe = [op |-> "none", id |-> NULL, fields |-> 0, event |-> <<>>]

\* One groups.update event with one update is handled to its end.
KindGroupsUpdate(u) ==
  /\ probe.op = "none"
  /\ store' = GroupHandler_handleGroupUpdate([store EXCEPT !.log = <<>>], <<u>>)
  /\ probe' = [op |-> "groups.update", id |-> u.id,
               fields |-> Cardinality({f \in DOMAIN GroupChanges(u) :
                                         GroupChanges(u)[f].set}),
               event |-> u]
  /\ UNCHANGED <<sock, reconnectAttempts, isConnecting, registeredHandlers,
                 orphans, calls, timers, ret, loggedOut, closures, backoff,
                 lastDelay>>
\* One group-participants.update event is handled to its end.
KindParticipantsUpdate(event) ==
  /\ probe.op = "none"
  /\ store' = GroupHandler_handleParticipantsUpdate([store EXCEPT !.log = <<>>],
                                                    event)
  /\ probe' = [op |-> "group-participants.update", id |-> event.id,
               fields |-> 0, event |-> event]
  /\ UNCHANGED <<sock, reconnectAttempts, isConnecting, registeredHandlers,
                 orphans, calls, timers, ret, loggedOut, closures, backoff,
                 lastDelay>>
NextKind ==
  \/ \E u \in KindGroupUpdates : KindGroupsUpdate(u)
  \/ \E event \in KindParticipantEvents : KindParticipantsUpdate(event)

SpecKind == InitKind /\ [][NextKind]_vars

(***************************************************************************)
(* syncHistory's wait, over any number of history batches: a batch is      *)
(* received at the time of a check or 1 ms after it, its handler settles    *)
(* at any later moment, and the handlers of several batches may be awaiting *)
(* handleHistorySet at the same time. Times are ms since startTime;         *)
(* lastBatchTime is first set up to 1 ms before it.                         *)
(***************************************************************************)
InitWait ==
  /\ InitConn
  /\ InitStore
  /\ \E lag \in {0, 1} :
       probe = [op |-> "wait", now |-> 0, lastBatchTime |-> 0 - lag,
                isComplete |-> FALSE, pending |-> <<>>, declared |-> "none",
                disconnects |-> 0, flagged |-> FALSE]

\* messaging-history.set is emitted: the handler notes the time and awaits
\* handleHistorySet.
WaitBatchReceived(isLatest, late) ==
  /\ probe.disconnects = 0
  /\ Len(probe.pending) < MaxPending
  /\ probe' = [probe EXCEPT !.lastBatchTime = probe.now + late,
                            !.pending = Append(@, isLatest)]
  /\ UNCHANGED <<sock, reconnectAttempts, isConnecting, registeredHandlers,
                 orphans, calls, timers, ret, loggedOut, closures, backoff,
                 lastDelay, store>>
\* handleHistorySet of the i-th batch being handled settles, and its handler
\* looks at the flag.
WaitBatchSettled(i) ==
  /\ probe.disconnects = 0
  /\ i \in DOMAIN probe.pending
  /\ probe' = [probe EXCEPT
                 !.pending = SubSeq(@, 1, i - 1) \o SubSeq(@, i + 1, Len(@)),
                 !.isComplete = @ \/ probe.pending[i],
                 !.flagged = @ \/ probe.pending[i]]
  /\ UNCHANGED <<sock, reconnectAttempts, isConnecting, registeredHandlers,
                 orphans, calls, timers, ret, loggedOut, closures, backoff,
                 lastDelay, store>>
\* The setInterval callback runs, CheckIntervalMs after the one before; it
\* is cleared once it has declared the end.
WaitCheck ==
  /\ probe.declared = "none"
  /\ probe.now <= MAX_WAIT_MS
  /\ probe' = [probe EXCEPT
                 !.now = @ + CheckIntervalMs,
                 !.declared = CheckOutcome(probe.now + CheckIntervalMs,
                                           probe.lastBatchTime, probe.isComplete)]
  /\ UNCHANGED <<sock, reconnectAttempts, isConnecting, registeredHandlers,
                 orphans, calls, timers, ret, loggedOut, closures, backoff,
                 lastDelay, store>>
\* The promise has resolved: the summary is logged, wa.disconnect() is called
\* and the process exits.
WaitDisconnect ==
  /\ probe.declared # "none"
  /\ probe.disconnects = 0
  /\ probe' = [probe EXCEPT !.disconnects = @ + 1]
  /\ UNCHANGED <<sock, reconnectAttempts, isConnecting, registeredHandlers,
                 orphans, calls, timers, ret, loggedOut, closures, backoff,
                 lastDelay, store>>
NextWait ==
  \/ \E isLatest \in BOOLEAN, late \in {0, 1} : WaitBatchReceived(isLatest, late)
  \/ \E i \in 1..MaxPending : WaitBatchSettled(i)
  \/ WaitCheck
  \/ WaitDisconnect

SpecWait == InitWait /\ [][NextWait]_vars

(***************************************************************************)
(* The connection manager with one handler attached through on() besides   *)
(* the handlers registered through onPersistent().                         *)
(***************************************************************************)
\* The handler of on(): not one of the registered ones.
DirectHandler == MaxHandlers + 1

InitOn ==
  /\ InitConn
  /\ InitStore
  /\ probe = [op |-> "none", attached |-> FALSE]

\* The sockets, held or not, that carry the handler h.
Carries(s, h) == \E i \in DOMAIN s.listeners : s.listeners[i] = h

RECURSIVE CarriersIn(_, _, _)
CarriersIn(socks, bag, h) ==
  IF socks = {} THEN 0
  ELSE LET s == CHOOSE x \in socks : TRUE IN
       (IF Carries(s, h) THEN CopiesIn(s, bag) ELSE 0)
         + CarriersIn(socks \ {s}, bag, h)

Carriers(held, others, h) ==
  (IF Carries(held, h) THEN 1 ELSE 0) + CarriersIn(BagToSet(others), others, h)

\* The runs followed: on() is called on the first socket before any
\* closure, as the scripts do right after connect(); afterwards the run goes
\* on through one closure and at most one replaced socket, and it ends once
\* every socket that carried the handler of on() is gone and a socket
\* created later is open.
OnScope ==
  IF probe.attached
  THEN /\ closures <= 1
       /\ BagCardinality(orphans) <= 1
       /\ Carriers(sock, orphans, DirectHandler) > 0 \/ sock.st # "open"
  ELSE closures = 0 /\ orphans = EmptyBag

NextOn ==
  \/ OnScope /\ \E h \in Handlers : onPersistent(h)
  \/ on(DirectHandler)
  \/ OnScope /\ connect
  \/ OnScope /\ \E by \in CallOrigins : connectCreate(by)
  \/ OnScope /\ \E by \in CallOrigins : connectFail(by)
  \/ OnScope /\ OnOpenHeld
  \/ OnScope /\ \E o \in BagToSet(orphans) : OnOpenOrphan(o)
  \/ OnScope /\ \E lo \in BOOLEAN : OnCloseHeld(lo)
  \/ OnScope /\ \E o \in BagToSet(orphans), lo \in BOOLEAN : OnCloseOrphan(o, lo)
  \/ OnScope /\ \E t \in BagToSet(timers) : TimerFire(t)
  \/ OnScope /\ \E report \in BOOLEAN : disconnect(report)

SpecOn == InitOn /\ [][NextOn]_vars

(***************************************************************************)
(* Messages upserted one at a time, some of them skipped by the handler    *)
(* and some rejected by the store, with the store before each of them.     *)
(***************************************************************************)
SkipEvents ==
  {Msg(NULL, J1, Text(<<"h", "i">>), Num(5)),
   Msg(<<>>, J2, Image, Num(5)),
   Msg(M2, NULL, Image, Num(5)),
   Msg(M2, <<>>, Text(<<"h", "i">>), Num(5)),
   Msg(M2, J1, KeyDistribution, Num(5)),
   Msg(M3, J2, KeyDistribution, Num(5)),
   Msg(M2, J2, Image, [t |-> "invalid"]),
   Msg(M3, J1, Text(<<"y", "o">>), [t |-> "invalid"]),
   Msg(M2, J1, Text(<<"y", "o">>), Num(5)),
   Msg(M1, J2, Image, Num(5))}

\* messages.upsert events per run
SkipRunLength == MaxBatch

InitSkip ==
  /\ InitConn
  /\ store \in InitialStores
  /\ probe = [op |-> "none", msg |-> NULL, before |-> store, count |-> 0]

\* handleUpsert({ messages: [msg] }) runs to its end.
SkipUpsert(msg) ==
  /\ probe.count < SkipRunLength
  /\ store' = handleUpsert(store, <<msg>>)
  /\ probe' = [op |-> "upsert", msg |-> msg, before |-> store,
               count |-> probe.count + 1]
  /\ UNCHANGED <<sock, reconnectAttempts, isConnecting, registeredHandlers,
                 orphans, calls, timers, ret, loggedOut, closures, backoff,
                 lastDelay>>

NextSkip == \E msg \in SkipEvents : SkipUpsert(msg)

SpecSkip == InitSkip /\ [][NextSkip]_vars

(***************************************************************************)
(* One chat, group or participant event under observation, whose id is the *)
(* id of a stored Chat or of none.                                         *)
(***************************************************************************)
\* No chat; the private chat only; the three chats and the metadata of the
\* group.
AbsentStores ==
  {EmptyStore,
   [EmptyStore EXCEPT !.chats = ChatsOf(<<J1>>)],
   [EmptyStore EXCEPT !.chats = ChatsOf(<<J1, J2, JB>>),
                      !.groups = GroupMetadataFindOrCreate(
                                   <<>>, FindRow(ChatsOf(<<J1, J2, JB>>), "chat_id", J2))]}

InitAbsent ==
  /\ InitConn
  /\ store \in AbsentStores
  /\ probe = [op |-> "none", id |-> NULL, before |-> store, event |-> <<>>]

AbsentStep(op, event, after) ==
  /\ probe.op = "none"
  /\ store' = after
  /\ probe' = [op |-> op, id |-> event.id, before |-> store, event |-> event]
  /\ UNCHANGED <<sock, reconnectAttempts, isConnecting, registeredHandlers,
                 orphans, calls, timers, ret, loggedOut, closures, backoff,
                 lastDelay>>

\* One chats.update event with one update is handled to its end.
AbsentChatsUpdate(u) ==
  AbsentStep("chats.update", u, ChatHandler_handleUpdate(store, <<u>>))

\* One groups.update event with one update is handled to its end.
AbsentGroupsUpdate(u) ==
  AbsentStep("groups.update", u, GroupHandler_handleGroupUpdate(store, <<u>>))

\* One group-participants.update event is handled to its end.
AbsentParticipantsUpdate(event) ==
  AbsentStep("group-participants.update", event,
             GroupHandler_handleParticipantsUpdate(store, event))

NextAbsent ==
  \/ \E jid \in KindJids : \E u \in ChatUpdates(jid) : AbsentChatsUpdate(u)
  \/ \E u \in KindGroupUpdates : AbsentGroupsUpdate(u)
  \/ \E event \in KindParticipantEvents : AbsentParticipantsUpdate(event)

SpecAbsent == InitAbsent /\ [][NextAbsent]_vars

(***************************************************************************)
(* Messages that quote one another, themselves and messages not stored     *)
(* yet, upserted one at a time in any order.                               *)
(***************************************************************************)
QuoteEvents ==
  {Msg(M1, J1, Text(<<"h", "i">>), Num(1)),
   Msg(M1, J1, Reply(<<"r", "e">>, M1), Num(1)),
   Msg(M2, J2, Reply(<<"r", "e">>, M1), Num(2)),
   Msg(M2, J1, Reply(<<"r", "e">>, M3), Num(2)),
   Msg(M3, J1, Reply(<<"r", "e">>, M2), Num(3)),
   Msg(M3, J2, Reply(<<"r", "e">>, M3), Num(3)),
   Msg(M3, J2, Image, [t |-> "invalid"])}

\* messages.upsert events per run
QuoteRunLength == MaxBatch + 1

InitQuote ==
  /\ InitConn
  /\ InitStore
  /\ probe = [op |-> "none", count |-> 0]

\* handleUpsert({ messages: [msg] }) runs to its end.
QuoteUpsert(msg) ==
  /\ probe.count < QuoteRunLength
  /\ store' = handleUpsert([store EXCEPT !.log = <<>>], <<msg>>)
  /\ probe' = [op |-> "upsert", count |-> probe.count + 1]
  /\ UNCHANGED <<sock, reconnectAttempts, isConnecting, registeredHandlers,
                 orphans, calls, timers, ret, loggedOut, closures, backoff,
                 lastDelay>>

NextQuote == \E msg \in QuoteEvents : QuoteUpsert(msg)

SpecQuote == InitQuote /\ [][NextQuote]_vars

(***************************************************************************)
(* Properties of the ingestion pipeline.                                   *)
(***************************************************************************)

\* The external ids of the stored messages.
StoredIds(messages) == {messages[i].message_id : i \in 1..Len(messages)}

\* The preview fields of a chat row.
Preview(chat) ==
  <<chat.last_message_at, chat.last_message_preview, chat.total_message_count>>

\* The k-th item of the last invocation found its id stored: stored before the
\* invocation, or saved by an earlier item of the same batch.
FoundStored(before, log, k) ==
  \/ log[k].id \in StoredIds(before)
  \/ \E j \in 1..(k - 1) : log[j].kind = "saved" /\ log[j].id = log[k].id

\* C1: whatever sequence of message events is ingested (live upserts and
\* history sub-batches, repeats inside one batch included), at most one
\* Message is stored per external id; an event whose id is already stored
\* raises no error and changes nothing: the stored rows stay as they were, the
\* item is logged as a duplicate (or skipped as a protocol message), and the
\* preview fields of a chat change only when a message is newly saved in it.
C1_IdempotentIngestion ==
  [][ /\ Len(store'.messages) >= Len(store.messages)
      /\ SubSeq(store'.messages, 1, Len(store.messages)) = store.messages
      /\ \A i, j \in 1..Len(store'.messages) :
            store'.messages[i].message_id = store'.messages[j].message_id => i = j
      /\ \A k \in 1..Len(store'.log) :
            FoundStored(store.messages, store'.log, k)
              => store'.log[k].kind \in {"duplicate", "protocol"}
      /\ \A c \in 1..Len(store.chats) :
            (\A i \in (Len(store.messages) + 1)..Len(store'.messages) :
               store'.messages[i].chat_id # c)
              => Preview(store'.chats[c]) = Preview(store.chats[c])
    ]_vars

\* An event repeated inside one batch when its id was new, and an event whose
\* id was stored by an earlier batch with another payload.
C1_Witness ==
  /\ Len(store.messages) = 2
  /\ Len(store.log) = 2
  /\ store.log[1].kind = "duplicate"
  /\ store.log[1].id = store.messages[1].message_id
  /\ store.log[2].kind = "saved"
  /\ store.chats[store.messages[1].chat_id].total_message_count = 1

\* seq without its i-th element
RemoveAt(seq, i) == SubSeq(seq, 1, i - 1) \o SubSeq(seq, i + 1, Len(seq))

\* A message row with its foreign keys replaced by the external ids of the
\* rows they reference.
External(S, row) ==
  [row EXCEPT
     !.chat_id = S.chats[row.chat_id].chat_id,
     !.quoted_message_id = IF @ = NoRow THEN NULL ELSE S.messages[@].message_id]

ExternalMessages(S) == [i \in 1..Len(S.messages) |-> External(S, S.messages[i])]

ChatByJid(S, jid) == S.chats[FindRow(S.chats, "chat_id", jid)]

ContactById(S, id) == S.contacts[FindRow(S.contacts, "contact_id", id)]

\* The store after the observed batch had it been delivered without item i.
WithoutItem(i) == handleUpsert(probe.before, RemoveAt(probe.messages, i))

\* The items of the observed batch whose processing raised.
FailedItems == {i \in 1..Len(store.log) : store.log[i].kind = "failed"}

\* C11 (as amended): handleUpsert completes with one outcome per item; for
\* every item i whose Message insert is rejected, item i is logged with its
\* external id, and the Messages stored, the outcomes of the other items and
\* every chat the other items use are exactly as if item i were absent.
C11_FailureIsolated ==
  probe.op = "handleUpsert" =>
    /\ Len(store.log) = Len(probe.messages)
    /\ \A i \in FailedItems :
         /\ store.log[i].id = probe.messages[i].id
         /\ ExternalMessages(store) = ExternalMessages(WithoutItem(i))
         /\ RemoveAt(store.log, i) = WithoutItem(i).log
         /\ \A c \in 1..Len(WithoutItem(i).chats) :
              ChatByJid(store, WithoutItem(i).chats[c].chat_id) = WithoutItem(i).chats[c]

\* A batch of three whose second item fails and whose other items are saved.
C11_Witness ==
  /\ probe.op = "handleUpsert"
  /\ Len(store.log) = 3
  /\ store.log[1].kind = "saved"
  /\ store.log[2].kind = "failed"
  /\ store.log[3].kind = "saved"

\* C11 (as stated): every row the other items of the batch store or find,
\* the sender contacts included, is exactly as if the failing item were absent.
C11_AsIfAbsent ==
  probe.op = "handleUpsert" =>
    \A i \in FailedItems :
      /\ ExternalMessages(store) = ExternalMessages(WithoutItem(i))
      /\ RemoveAt(store.log, i) = WithoutItem(i).log
      /\ \A c \in 1..Len(WithoutItem(i).chats) :
           ChatByJid(store, WithoutItem(i).chats[c].chat_id) = WithoutItem(i).chats[c]
      /\ \A c \in 1..Len(WithoutItem(i).contacts) :
           ContactById(store, WithoutItem(i).contacts[c].contact_id)
             = WithoutItem(i).contacts[c]

\* The keys of a payload.
KeysOf(content) == {content[i].key : i \in 1..Len(content)}

ProtocolKeys == {"protocolMessage", "senderKeyDistributionMessage"}

UserContentKeys == ContentKeys \ (ProtocolKeys \cup {"messageContextInfo"})

\* C12: a payload whose only classification match is a protocol /
\* key-distribution key is never persisted as a Message, whether it arrives
\* in a live upsert or in a history batch.
C12_ProtocolNotPersisted ==
  (/\ probe.op = "payload"
   /\ KeysOf(probe.content) \cap ProtocolKeys # {}
   /\ KeysOf(probe.content) \cap UserContentKeys = {})
    => store.messages = <<>>

\* A key-distribution payload with an unrecognised key in front of it has gone
\* through the history path and was skipped as a protocol message.
C12_Witness ==
  /\ probe.op = "payload"
  /\ probe.via = "history"
  /\ Len(probe.content) = 2
  /\ probe.content[1].key = "messageContextInfo"
  /\ probe.content[2].key = "senderKeyDistributionMessage"
  /\ Len(store.log) = 1
  /\ store.log[1].kind = "protocol"
  /\ store.messages = <<>>

\* What the quoted reference of the i-th stored Message was bound to be when
\* the row was inserted: the Message with the quoted external id among the
\* rows stored before it, else none.
QuotedAtInsertion(messages, i) ==
  LET q == quotedStanzaId(messages[i].raw_data.content) IN
  IF q # NULL /\ \E j \in 1..(i - 1) : messages[j].message_id = q
    THEN CHOOSE j \in 1..(i - 1) : messages[j].message_id = q
    ELSE NoRow

\* C13: the quoted reference of a Message is fixed when the Message is first
\* inserted: the stored Message with the quoted external id if it is stored
\* at that moment, else null; no later event changes it.
C13_QuoteFixedAtInsertion ==
  [][ /\ \A i \in 1..Len(store.messages) :
           /\ i <= Len(store'.messages)
           /\ store'.messages[i].quoted_message_id = store.messages[i].quoted_message_id
      /\ \A i \in 1..Len(store'.messages) :
           store'.messages[i].quoted_message_id = QuotedAtInsertion(store'.messages, i)
    ]_vars

\* B, which quotes A, was stored before A; A has arrived since and B has been
\* redelivered: B's quoted reference is still null.
C13_Witness ==
  /\ Len(store.messages) = 2
  /\ store.messages[1].message_id = M2
  /\ quotedStanzaId(store.messages[1].raw_data.content) = M1
  /\ store.messages[2].message_id = M1
  /\ store.messages[1].quoted_message_id = NoRow
  /\ store.log = <<LogEntry("duplicate", M2)>>

\* The name an update event carries: name, else notify; NULL when it has none.
CarriedName(u) ==
  IF u.name \notin {NULL, Undefined, <<>>} THEN u.name
  ELSE IF u.notify \notin {NULL, Undefined, <<>>} THEN u.notify
  ELSE NULL

\* The name of the last event of seen for id whose carried name is not among
\* notCounted; initial when there is none.
RECURSIVE LastNameFor(_, _, _, _)
LastNameFor(seen, id, initial, notCounted) ==
  IF seen = <<>> THEN initial
  ELSE LET u == seen[Len(seen)]
       IN IF u.id = id /\ CarriedName(u) \notin notCounted
            THEN CarriedName(u)
            ELSE LastNameFor(SubSeq(seen, 1, Len(seen) - 1), id, initial, notCounted)

\* The name stored for id before the first update; NULL without a row.
NameBefore(id) ==
  LET pk == FindRow(probe.before.contacts, "contact_id", id)
  IN IF pk = NoRow THEN NULL ELSE probe.before.contacts[pk].name

C15_ImageOutranksText ==
  (/\ probe.op = "payload"
   /\ probe.type # ""
   /\ KeysOf(probe.content) = {"conversation", "imageMessage"})
    => probe.type = "image"

\* The content-kind keys in the priority order of the classification table.
PriorityOrder ==
  <<"conversation", "extendedTextMessage", "imageMessage", "videoMessage",
    "audioMessage", "documentMessage", "documentWithCaptionMessage",
    "stickerMessage", "locationMessage", "liveLocationMessage", "contactMessage",
    "contactsArrayMessage", "pollCreationMessage", "pollUpdateMessage",
    "reactionMessage", "protocolMessage", "senderKeyDistributionMessage">>

\* The class of the first key of `order` that is in `keys`; unknown if none.
RECURSIVE ClassByOrder(_, _)
ClassByOrder(keys, order) ==
  IF order = <<>> THEN "unknown"
  ELSE IF Head(order) \in keys THEN KeyType(Head(order))
  ELSE ClassByOrder(keys, Tail(order))

\* C16: the classification of a payload depends on the set of its keys only:
\* it is the class of the first key of the priority order that is present, and
\* unknown when none is.
C16_ClassByPriority ==
  (probe.op = "payload" /\ probe.type # "")
    => probe.type = ClassByOrder(KeysOf(probe.content), PriorityOrder)

\* C17: a payload with a user-content key and a protocol / key-distribution
\* key is classified by the user-content key, and is persisted when it is
\* ingested.
C17_UserContentWins ==
  (/\ probe.op = "payload"
   /\ KeysOf(probe.content) \cap UserContentKeys # {}
   /\ KeysOf(probe.content) \cap ProtocolKeys # {})
    => /\ probe.type # "" =>
            probe.type \in {KeyType(k) : k \in KeysOf(probe.content) \cap UserContentKeys}
       /\ probe.via # "none" =>
            /\ Len(store.messages) = 1
            /\ store.messages[1].message_type
                 \in {KeyType(k) : k \in KeysOf(probe.content) \cap UserContentKeys}

\* jid ends in suffix: it is some prefix of itself followed by suffix.
HasSuffix(jid, suffix) ==
  \E n \in 0..Len(jid) : jid = SubSeq(jid, 1, n) \o suffix

KindBySuffix(jid) ==
  IF HasSuffix(jid, AtGUs) THEN "group"
  ELSE IF HasSuffix(jid, AtBroadcast) THEN "broadcast"
  ELSE "private"

\* C18: the kind of a stored Chat is the one its external id gives by suffix
\* (@g.us group, @broadcast broadcast, anything else private), the message
\* handler and the history handler derive the same kind for the id, and no
\* ingestion event changes the external id or the kind of a stored Chat.
C18_KindBySuffix ==
  [][ /\ chatTypeFromJid(probe.jid) = KindBySuffix(probe.jid)
      /\ historyChatTypeFromJid(probe.jid) = chatTypeFromJid(probe.jid)
      /\ \A i \in 1..Len(store'.chats) :
           store'.chats[i].chat_type = KindBySuffix(store'.chats[i].chat_id)
      /\ \A i \in 1..Len(store.chats) :
           /\ i <= Len(store'.chats)
           /\ store'.chats[i].chat_id = store.chats[i].chat_id
           /\ store'.chats[i].chat_type = store.chats[i].chat_type
    ]_vars

\* A broadcast chat has been handled by the message handler (one message
\* counted), by the history handler (which gave it its name) and by the chat
\* handler (which archived it), and it is still a broadcast chat.
C18_Witness ==
  /\ probe.op = "jid"
  /\ probe.jid = <<"1">> \o AtBroadcast
  /\ probe.events = 3
  /\ Len(store.chats) = 1
  /\ store.chats[1].chat_type = "broadcast"
  /\ store.chats[1].total_message_count = 1
  /\ store.chats[1].name = <<"N">>
  /\ store.chats[1].is_archived
  /\ store.log[1].kind = "saved"

\* The catch block of handleHistorySet has run.
HistoryFailed(S) ==
  \E i \in 1..Len(S.log) : S.log[i].kind = "rolledBack"

\* C20: when a chat or contact upsert of a history batch fails, the
\* transaction is rolled back: no Chat or Contact of the batch is stored, no
\* message of the batch is processed, the failure is thrown to the caller, and
\* the store is the store before the batch.
C20_FailedBatchLeavesStore ==
  (probe.op = "handleHistorySet" /\ HistoryFailed(store)) =>
    /\ store.chats = probe.before.chats
    /\ store.contacts = probe.before.contacts
    /\ store.messages = probe.before.messages
    /\ store.log = probe.before.log \o
                     <<LogEntry("rolledBack", NULL), LogEntry("thrown", NULL)>>

\* From an empty store: the first chat of the batch was new and accepted, the
\* second was rejected, and the batch carried a message; nothing is stored.
C20_Witness ==
  /\ probe.op = "handleHistorySet"
  /\ probe.before = EmptyStore
  /\ probe.batch.chats = <<[id |-> J1, name |-> <<"N">>], [id |-> J2, name |-> LongName]>>
  /\ probe.batch.messages # <<>>
  /\ HistoryFailed(store)
  /\ store.chats = <<>>
  /\ store.messages = <<>>

\* The sender the message handler stores for a message.
SenderOf(msg) == IF Truthy(msg.participant) THEN msg.participant ELSE msg.remoteJid

\* Every chat and contact of the batch is accepted by the store, and every
\* message is user content with a valid timestamp, of a chat of the batch and
\* from a contact of the batch.
WellFormed(h) ==
  /\ \A i \in 1..Len(h.chats) : Truthy(h.chats[i].id) /\ h.chats[i].name # LongName
  /\ \A i \in 1..Len(h.contacts) :
       Truthy(h.contacts[i].id) /\ OrNull(h.contacts[i].name, h.contacts[i].notify) # LongName
  /\ \A i \in 1..Len(h.messages) :
       LET m == h.messages[i] IN
       /\ resolveMessageType(m.content) # "protocol"
       /\ extractTimestamp(m.ts) # InvalidDate
       /\ \E j \in 1..Len(h.chats) : h.chats[j].id = m.remoteJid
       /\ \E j \in 1..Len(h.contacts) : h.contacts[j].id = SenderOf(m)

\* The importer has declared the end of an import that received one batch,
\* flagged isLatest.
ImportedOneLatestBatch ==
  /\ probe.op = "syncHistory"
  /\ probe.declared # "none"
  /\ probe.batchCount = 1
  /\ probe.received[1].isLatest

RowsOf(parts, p) == {i \in DOMAIN parts : parts[i].participant_jid = p}

Named(event) == {event.participants[i] : i \in DOMAIN event.participants}

\* C23: after an add action for participant p in a group whose Chat exists,
\* there is exactly one row for (group, p) and it is active, whatever happened
\* to p before, a removal included; a row that the add created has the role
\* member.
C23_AddActivates ==
  [][LET event == probe'.event IN
     (/\ probe'.op = "group-participants.update"
      /\ event.action = "add"
      /\ FindRow(store.chats, "chat_id", event.id) # NoRow)
     => \A p \in Named(event) :
            /\ Cardinality(RowsOf(store'.participants, p)) = 1
            /\ \A i \in RowsOf(store'.participants, p) :
                 /\ store'.participants[i].is_active
                 /\ RowsOf(store.participants, p) = {}
                      => store'.participants[i].role = "member"]_vars

\* The columns of a row that no participant action rewrites.
SameIdentity(old, new) ==
  /\ new.group_metadata_id = old.group_metadata_id
  /\ new.participant_jid = old.participant_jid
  /\ new.added_at = old.added_at

\* C24: no event deletes a GroupParticipant row. A remove sets is_active to
\* false and the removal time on the rows it names and nothing else; promote
\* and demote set the role of the rows they name to admin / member and nothing
\* else; none of the three creates a row; a groups.update touches no row.
C24_SoftDeleteOnly ==
  [][/\ Len(store'.participants) >= Len(store.participants)
     /\ \A i \in DOMAIN store.participants :
          SameIdentity(store.participants[i], store'.participants[i])
     /\ probe'.op = "groups.update" => store'.participants = store.participants
     /\ LET event == probe'.event IN
          (probe'.op = "group-participants.update" /\ event.action # "add")
          => /\ Len(store'.participants) = Len(store.participants)
             /\ \A i \in DOMAIN store.participants :
                  LET old == store.participants[i]
                      new == store'.participants[i]
                      named == old.participant_jid \in Named(event)
                  IN
                  new = IF ~named THEN old
                        ELSE IF event.action = "remove"
                          THEN [old EXCEPT !.is_active = FALSE, !.removed_at = Now]
                        ELSE IF event.action = "promote"
                          THEN [old EXCEPT !.role = "admin"]
                        ELSE IF event.action = "demote"
                          THEN [old EXCEPT !.role = "member"]
                        ELSE old]_vars

\* A promoted participant has been removed while another one stays active.
C24_Witness ==
  /\ probe.op = "group-participants.update"
  /\ probe.event.action = "remove"
  /\ Len(store.participants) = 2
  /\ \E i, j \in DOMAIN store.participants :
       /\ store.participants[i].role = "admin"
       /\ ~store.participants[i].is_active
       /\ store.participants[i].removed_at = Now
       /\ store.participants[j].is_active

(***************************************************************************)
(* Properties of the update handlers.                                      *)
(***************************************************************************)
\* A stored column of the given type after a delta: the old value when the
\* property is absent, the given value when it is present with a value, and
\* null (no value of the type) when it is present with null.
Overwritten(new, old, opt, val, Type) ==
  IF ~opt.present THEN new = old
  ELSE IF opt.set THEN new = val
  ELSE new \notin Type

\* A stored string column after a delta.
OverwrittenString(new, old, str) == new = IF str = Undefined THEN old ELSE str

\* A stored nullable column of a GroupMetadata after a delta.
OverwrittenOpt(new, old, opt) == new = IF opt.present THEN opt ELSE old

\* C25: an update changes exactly the stored fields that its delta has: an
\* absent field keeps the stored value, a present one overwrites it, null
\* included (chat archive, pin, mute, unread count and name; contact avatar
\* and status; the fields of the group metadata).
C25_DeltaApplied ==
  LET u == probe.update IN
  /\ probe.op = "chats.update" =>
       LET new == store.chats[1]
           old == DeltaStore.chats[1]
       IN /\ Overwritten(new.is_archived, old.is_archived, u.archive,
                         u.archive.val, BOOLEAN)
          /\ Overwritten(new.is_pinned, old.is_pinned, u.pin, u.pin.val > 0, BOOLEAN)
          /\ Overwritten(new.is_muted, old.is_muted, u.mute, u.mute.val > 0, BOOLEAN)
          /\ Overwritten(new.unread_count, old.unread_count, u.unreadCount,
                         u.unreadCount.val, Int)
          /\ OverwrittenString(new.name, old.name, u.name)
  /\ probe.op = "contacts.update" =>
       LET new == store.contacts[1]
           old == DeltaStore.contacts[1]
       IN /\ OverwrittenString(new.avatar_url, old.avatar_url, u.imgUrl)
          /\ OverwrittenString(new.about, old.about, u.status)
  /\ probe.op = "groups.update" =>
       LET new == store.groups[1]
           old == DeltaStore.groups[1]
       IN /\ OverwrittenString(new.subject, old.subject, u.subject)
          /\ OverwrittenString(new.owner, old.owner, u.owner)
          /\ OverwrittenString(new.description, old.description, u.desc)
          /\ OverwrittenOpt(new.announce, old.announce, u.announce)
          /\ OverwrittenOpt(new.restrict_mode, old.restrict_mode, u.restrict)
          /\ OverwrittenOpt(new.join_approval_mode, old.join_approval_mode,
                            u.joinApprovalMode)
          /\ OverwrittenOpt(new.member_add_mode, old.member_add_mode,
                            u.memberAddMode)
          /\ OverwrittenOpt(new.ephemeral_duration, old.ephemeral_duration,
                            u.ephemeralDuration)

(***************************************************************************)
(* Properties of the handlers' error handling.                             *)
(***************************************************************************)
Kinds(S) == {S.log[i].kind : i \in DOMAIN S.log}

\* C26: the message, chat, contact, group and participant handlers never
\* throw, whatever the event and whether or not the database is reachable;
\* an error leaves the history handler only from its chat / contact phase,
\* before any message of the batch is processed and with nothing written.
C26_OnlyHistoryRaises ==
  "thrown" \in Kinds(store)
  => /\ probe.op = "messaging-history.set"
     /\ Kinds(store) \subseteq {"thrown", "rolledBack"}
     /\ store.chats = probe.before.chats
     /\ store.contacts = probe.before.contacts
     /\ store.messages = probe.before.messages

\* The first participant of an add event was rejected by the store and the
\* second one was still added.
C26_Witness ==
  /\ probe.op = "group-participants.update"
  /\ "failed" \in Kinds(store)
  /\ ~store.down
  /\ Len(store.participants) = 1

(***************************************************************************)
(* Properties of the handlers running concurrently.                        *)
(***************************************************************************)
Unique(rows, field) ==
  \A i, j \in DOMAIN rows : rows[i][field] = rows[j][field] => i = j

Finished(h) == probe.pc[h] = "done"

RECURSIVE Flatten(_)
Flatten(seqs) == IF seqs = <<>> THEN <<>> ELSE Head(seqs) \o Flatten(Tail(seqs))

\* The ids of the messages in the order in which the message handler took
\* them up.
TakenUp(S) ==
  LET entries == SelectSeq(S.log, LAMBDA e : e.kind \in {"saved", "failed",
                                                         "duplicate", "protocol",
                                                         "skipped"})
  IN [i \in DOMAIN entries |-> entries[i].id]

\* The Chat and the Contact of the long batch are stored under the names the
\* batch gives them.
LongCommitted(S) ==
  /\ Len(S.chats) = 1 /\ S.chats[1].name = <<"N">>
  /\ Len(S.contacts) = 1 /\ S.contacts[1].name = <<"H">>

Tables(S) ==
  [chats |-> S.chats, contacts |-> S.contacts, messages |-> S.messages,
   groups |-> S.groups, participants |-> S.participants]

\* C29: delivering the same history batch a second time, after a successful
\* or an aborted first delivery, leaves the store that one successful delivery
\* leaves: no further Chat, Contact or Message, and no stored field changed.
C29_RedeliveryIdempotent ==
  /\ probe.op = "second" => Tables(store) = Tables(probe.once)
  /\ probe.op = "first" /\ probe.first = "delivered" =>
       Tables(store) = Tables(probe.once)

\* A batch of two messages of one chat, both stored by the first delivery and
\* both found by the second.
C29_Witness ==
  /\ probe.op = "second"
  /\ probe.first = "delivered"
  /\ Len(probe.batch.messages) = 2
  /\ Len(store.messages) = Len(probe.once.messages)
  /\ Len(probe.once.messages) >= 2
  /\ Len(SelectSeq(store.log, LAMBDA e : e.kind = "duplicate")) = 2
  /\ \E i \in DOMAIN store.chats : store.chats[i].total_message_count = 2

(***************************************************************************)
(* Properties of the chat preview.                                         *)
(***************************************************************************)
\* The message of the event is stored now and was not before the event.
FirstInserted ==
  /\ MessageExists(store.messages, probe.msg.id)
  /\ ~MessageExists(probe.before.messages, probe.msg.id)

\* The preview and activity fields of the chats.
Activity(chats) ==
  [i \in DOMAIN chats |-> <<chats[i].last_message_at, chats[i].last_message_preview>>]

\* C30: the owning Chat's preview and activity fields are refreshed exactly
\* when a Message is inserted for the first time: last_message_at becomes the
\* message's timestamp and the preview the first PreviewLength characters of
\* its body, or the bracketed classification tag when the body is empty; a
\* duplicate, skipped or failed message event leaves them unchanged.
C30_PreviewOnFirstInsert ==
  probe.pc = "done" =>
    LET msg == probe.msg
        body == extractBody(msg.content)
        chat == store.chats[FindRow(store.chats, "chat_id", msg.remoteJid)]
    IN IF FirstInserted
         THEN /\ chat.last_message_at = extractTimestamp(msg.ts)
              /\ chat.last_message_preview =
                   IF body = NULL THEN Tag(resolveMessageType(msg.content))
                   ELSE Substring0(body, PreviewLength)
         ELSE \A i \in DOMAIN store.chats :
                IF i \in DOMAIN probe.before.chats
                  THEN Activity(store.chats)[i] = Activity(probe.before.chats)[i]
                  ELSE Activity(store.chats)[i] = <<0, NULL>>

(***************************************************************************)
(* Properties of the chat display name.                                    *)
(***************************************************************************)
\* The name the chat jid has in the chats, NULL when it is not stored.
NameOf(chats, jid) ==
  IF FindRow(chats, "chat_id", jid) = NoRow THEN NULL
  ELSE chats[FindRow(chats, "chat_id", jid)].name

\* The event of the step holds an inbound message of the private chat jid
\* with this push-name that the step inserted.
SeededBy(jid, name) ==
  /\ chatTypeFromJid(jid) = "private"
  /\ \E i \in DOMAIN probe'.messages :
       LET msg == probe'.messages[i] IN
       /\ msg.remoteJid = jid /\ msg.pushName = name /\ ~msg.fromMe
       /\ ~MessageExists(store.messages, msg.id)
       /\ MessageExists(store'.messages, msg.id)

\* The history batch of the step lists the chat jid under this name.
SuppliedBy(jid, name) ==
  /\ probe'.op = "messaging-history.set"
  /\ \E i \in DOMAIN probe'.chats :
       probe'.chats[i].id = jid /\ probe'.chats[i].name = name

\* C31: neither message ingestion nor history import overwrites a non-empty
\* stored Chat name; a name appears only on a private chat without a name,
\* from the push-name of an inbound message inserted by the step, or from a
\* history batch that supplies one for a chat stored without a name.
C31_NameNeverOverwritten ==
  [][\A jid \in {J1, J2} :
       LET old == NameOf(store.chats, jid)
           new == NameOf(store'.chats, jid)
       IN /\ Truthy(old) => new = old
          /\ (~Truthy(old) /\ Truthy(new)) =>
               SeededBy(jid, new) \/ SuppliedBy(jid, new)]_vars

\* A named private chat has taken up an inbound message with another
\* push-name, and a history batch with another name for it.
C31_Witness ==
  /\ probe.op = "messaging-history.set"
  /\ probe.chats = <<[id |-> J1, name |-> <<"X">>]>>
  /\ NameOf(store.chats, J1) = <<"A">>
  /\ \E i \in DOMAIN store.messages : store.messages[i].sender_name = <<"B">>
                                        /\ ~store.messages[i].is_from_me

(***************************************************************************)
(* Properties of the group metadata.                                       *)
(***************************************************************************)
\* C32: every GroupMetadata row belongs to exactly one Chat, and that Chat
\* has kind group; a group update (with a field to write) or a participant
\* update for a stored chat leaves a GroupMetadata row for it; no group or
\* participant event creates a GroupMetadata row for a private or broadcast
\* Chat.
C32_MetadataOnlyForGroups ==
  /\ \A g \in DOMAIN store.groups :
       /\ store.groups[g].chat_id \in DOMAIN store.chats
       /\ store.chats[store.groups[g].chat_id].chat_type = "group"
       /\ \A h \in DOMAIN store.groups :
            store.groups[h].chat_id = store.groups[g].chat_id => h = g
  /\ (/\ probe.op \in {"groups.update", "group-participants.update"}
      /\ probe.op = "groups.update" => probe.fields > 0
      /\ chatTypeFromJid(probe.id) = "group"
      /\ FindRow(store.chats, "chat_id", probe.id) # NoRow)
       => FindRow(store.groups, "chat_id",
                  FindRow(store.chats, "chat_id", probe.id)) # NoRow

(***************************************************************************)
(* Properties of the sync script's wait.                                   *)
(***************************************************************************)
\* C33: the wait of the sync script always ends: a check declares the import
\* complete as soon as a batch flagged isLatest has been handled, or no batch
\* was received for more than IDLE_TIMEOUT_MS, or MAX_WAIT_MS have passed,
\* flag or no flag in the last two cases, and it declares nothing before; no
\* check runs later than the first one after MAX_WAIT_MS; disconnect() is
\* called once, and only after the declaration.
C33_WaitEnds ==
  [][/\ probe'.now > MAX_WAIT_MS => probe'.declared # "none"
     /\ probe'.now # probe.now =>
          /\ probe.declared = "none"
          /\ probe'.declared # "none" <=>
               \/ probe.flagged
               \/ probe'.now - probe.lastBatchTime > IDLE_TIMEOUT_MS
               \/ probe'.now > MAX_WAIT_MS
     /\ probe'.disconnects <= 1
     /\ probe'.disconnects = 1 => probe.declared # "none"
     /\ probe.disconnects = 1 => probe' = probe]_vars

\* Batches kept coming for MAX_WAIT_MS, none of them flagged: the wait ended
\* on the ceiling and disconnect() was called.
C33_Witness ==
  /\ probe.op = "wait"
  /\ probe.declared = "maxWait"
  /\ ~probe.flagged
  /\ probe.disconnects = 1

\* C40: when the sync script declares completion and calls disconnect() and
\* exit, no received history batch is still being handled.
C40_NothingInFlightAtExit ==
  (probe.op = "wait" /\ probe.disconnects = 1) => probe.pending = <<>>

(***************************************************************************)
(* Properties of the handlers attached through on().                       *)
(***************************************************************************)
\* C34: a handler attached with on() is attached to the socket that is
\* current at that moment and to no other: no later step of the manager, a
\* reconnect included, attaches it to a socket; a handler registered with
\* onPersistent() is on every socket the manager holds afterwards.
C34_DirectHandlerNotCarriedOver ==
  [][/\ probe' # probe =>
          /\ Carries(sock', DirectHandler)
          /\ Carriers(sock', orphans', DirectHandler) = 1
     /\ probe' = probe =>
          Carriers(sock', orphans', DirectHandler)
            <= Carriers(sock, orphans, DirectHandler)
     /\ sock' # Null =>
          \A i \in DOMAIN registeredHandlers' :
            Carries(sock', registeredHandlers'[i])]_vars

\* After a closure the manager holds an open socket of a reconnect: it has
\* the registered handler and not the one attached with on().
C34_Witness ==
  /\ probe.op = "none" /\ probe.attached
  /\ closures >= 1
  /\ sock.st = "open"
  /\ registeredHandlers # <<>>
  /\ sock.listeners = registeredHandlers
  /\ ~Carries(sock, DirectHandler)
  /\ orphans = EmptyBag

(***************************************************************************)
(* Properties of skipped and of rejected messages.                         *)
(***************************************************************************)
\* The event has no remote id, no message id, or only protocol payload.
IsSkipEvent(msg) ==
  \/ msg.remoteJid \in {NULL, <<>>}
  \/ msg.id \in {NULL, <<>>}
  \/ KeysOf(msg.content) \subseteq ProtocolKeys

LastLogged(S) == S.log[Len(S.log)]

IsPrefix(short, long) ==
  Len(short) <= Len(long) /\ SubSeq(long, 1, Len(short)) = short

\* C36: a skipped message event (no remote id, no message id, protocol
\* payload) leaves every table as it was; a message whose insertion is
\* rejected leaves the Chat and the sender Contact that were found or
\* created for it, the rows stored before and no Message.
C36_SkipWritesNothing ==
  probe.op = "upsert" =>
    LET msg == probe.msg
        senderId == IF msg.participant # NULL THEN msg.participant
                    ELSE msg.remoteJid
    IN /\ IsSkipEvent(msg) =>
            /\ Tables(store) = Tables(probe.before)
            /\ LastLogged(store).kind \in {"skipped", "protocol"}
       /\ ~IsSkipEvent(msg) => LastLogged(store).kind \notin {"skipped", "protocol"}
       /\ LastLogged(store).kind = "failed" =>
            /\ FindRow(store.chats, "chat_id", msg.remoteJid) # NoRow
            /\ FindRow(store.contacts, "contact_id", senderId) # NoRow
            /\ IsPrefix(probe.before.chats, store.chats)
            /\ IsPrefix(probe.before.contacts, store.contacts)
            /\ store.messages = probe.before.messages

\* A rejected message has left a new Chat and a new Contact, and a skipped
\* one came before it.
C36_Witness ==
  /\ probe.op = "upsert"
  /\ probe.count = SkipRunLength
  /\ LastLogged(store).kind = "failed"
  /\ Len(store.chats) = Len(probe.before.chats) + 1
  /\ Len(store.contacts) = Len(probe.before.contacts) + 1
  /\ store.log[Len(store.log) - 1].kind \in {"skipped", "protocol"}
  /\ Tables(probe.before) \in {Tables(S) : S \in InitialStores}

(***************************************************************************)
(* Properties of events that name no stored Chat.                          *)
(***************************************************************************)
ChatIds(S) == [i \in 1..Len(S.chats) |-> S.chats[i].chat_id]

\* C37: a chat update, a group update or a participant update creates no
\* Chat, and when no Chat with its id is stored it is skipped and changes no
\* table.
C37_UpdatesCreateNoChat ==
  probe.op # "none" =>
    /\ ChatIds(store) = ChatIds(probe.before)
    /\ FindRow(probe.before.chats, "chat_id", probe.id) = NoRow =>
         /\ Tables(store) = Tables(probe.before)
         /\ LastLogged(store).kind = "notFound"

\* Participants were added to a group of which no Chat is stored, while
\* another Chat is.
C37_Witness ==
  /\ probe.op = "group-participants.update"
  /\ probe.event.action = "add"
  /\ probe.event.participants # <<>>
  /\ probe.before.chats # <<>>
  /\ FindRow(probe.before.chats, "chat_id", probe.id) = NoRow
  /\ store.participants = <<>>

(***************************************************************************)
(* Properties of the last-message fields of a Chat.                        *)
(***************************************************************************)
\* C38: the last_message_at of a Chat never decreases when messages are
\* ingested, whatever their timestamps.
C38_LastMessageAtMonotonic ==
  [][\A i \in 1..Len(store.chats) :
       store'.chats[i].last_message_at >= store.chats[i].last_message_at]_vars

(***************************************************************************)
(* Properties of the references of a Message.                              *)
(***************************************************************************)
\* C39: every stored Message references a stored Chat whose external id is
\* the remote id of the event that created the Message, and a quoted
\* reference that is not null is a Message stored before the quoting one,
\* the one with the quoted external id.
C39_ReferencesExist ==
  \A i \in 1..Len(store.messages) :
    LET m == store.messages[i] IN
    /\ m.chat_id \in 1..Len(store.chats)
    /\ store.chats[m.chat_id].chat_id = m.raw_data.remoteJid
    /\ m.quoted_message_id # NoRow =>
         /\ m.quoted_message_id \in 1..(i - 1)
         /\ store.messages[m.quoted_message_id].message_id
              = quotedStanzaId(m.raw_data.content)

\* A chain of quotes over two chats: the third Message quotes the second,
\* which quotes the first.
C39_Witness ==
  /\ Len(store.messages) = 3
  /\ store.messages[3].quoted_message_id = 2
  /\ store.messages[2].quoted_message_id = 1
  /\ store.messages[1].quoted_message_id = NoRow
  /\ store.messages[2].chat_id # store.messages[1].chat_id
  /\ quotedStanzaId(store.messages[1].raw_data.content) = M1

(***************************************************************************)
(* Properties of disconnect().                                             *)
(***************************************************************************)
\* disconnect() has just returned and no connect() is in flight.
Disconnected ==
  /\ ret = RetDisconnected
  /\ sock = Null
  /\ ~isConnecting
  /\ calls = EmptyBag

\* C35: after disconnect() has returned, only a connect() of the caller
\* starts a connection: the step that follows neither changes the handle,
\* nor starts a connect() from a reconnect timer, nor schedules a reconnect.
C35_StaysDisconnected ==
  [][Disconnected =>
       /\ sock' = Null
       /\ calls' # calls => calls' = SetToBag({"caller"})
       /\ isConnecting' => calls' = SetToBag({"caller"})
       /\ \A t \in BagToSet(timers') : CopiesIn(t, timers') <= CopiesIn(t, timers)]_vars

(***************************************************************************)
(* Properties of the connection lifecycle manager.                         *)
(***************************************************************************)

\* connect attempts in flight: a connect() suspended before its socket exists,
\* or a socket that has reported neither open nor close yet.
OrphansIn(st) ==
  LET S == {o \in BagToSet(orphans) : o.st = st} IN
  BagCardinality([o \in S |-> CopiesIn(o, orphans)])

ConnectingCount == OrphansIn("connecting") + (IF sock.st = "connecting" THEN 1 ELSE 0)

InFlightCount == BagCardinality(calls) + ConnectingCount

\* A step in which the transport reports a logged-out closure.
LogoutStep ==
  \/ OnCloseHeld(TRUE)
  \/ \E o \in BagToSet(orphans) : OnCloseOrphan(o, TRUE)

\* A step in which the transport reports a closure that is not a logout.
ClosureStep ==
  \/ OnCloseHeld(FALSE)
  \/ \E o \in BagToSet(orphans) : OnCloseOrphan(o, FALSE)

\* A step in which the transport reports open.
OpenStep ==
  \/ OnOpenHeld
  \/ \E o \in BagToSet(orphans) : OnOpenOrphan(o)

\* C22: every creds.update event that a socket created by the manager
\* emits, the first socket and those created on reconnection and those that
\* have been replaced included, calls the save callback exactly once.
C22_SavedOncePerEvent == probe.op = "creds.update" => probe.saved = 1

\* The event came from the socket that the manager holds after a closure,
\* created while the socket before it was still live.
C22_Witness ==
  /\ probe.op = "creds.update"
  /\ probe.saved = 1
  /\ probe.from = "afterClosure"
  /\ orphans # EmptyBag

\* No transport event, timer or connect attempt is left to move the manager:
\* the socket it holds has closed, no replaced socket is live, no reconnect is
\* pending and no connect() is in flight.
Stranded ==
  /\ sock.st = "closed"
  /\ orphans = EmptyBag
  /\ timers = EmptyBag
  /\ calls = EmptyBag

\* C27: after a closure that is not a logout, with attempts remaining, the
\* manager is never left for good without a live session, a pending
\* reconnect or a connect attempt in flight, also when the connect() that the
\* reconnect timer runs fails before a socket is created. In a stranded
\* state only the application can act, so the manager must not reach one
\* while it is not logged out and its budget is not used up.
C27_NeverStranded ==
  ~(Stranded /\ ~loggedOut /\ reconnectAttempts < maxReconnectAttempts)

\* C2: the manager owns at most one live transport session at a time.
C2_SingleLiveSession == LiveCount <= 1

\* C3: a logged-out closure schedules no reconnect and drops the connection
\* handle, and from that event on (until the application connects again) no
\* connect attempt is initiated by the manager: no reconnect timer starts a
\* connect().
C3_LoggedOutTerminal ==
  [][ /\ (LogoutStep => /\ BagCardinality(timers') = BagCardinality(timers)
                        /\ sock' = Null)
      /\ (loggedOut => \A by \in {"timer", "stale"} :
                          CopiesIn(by, calls') <= CopiesIn(by, calls)) ]_vars

Schedule == <<2000, 4000, 8000, 16000, 32000, 60000, 60000, 60000, 60000, 60000>>

\* C4: the reconnect scheduled after the n-th non-logged-out closure since the
\* last open (n = 1..10) has delay min(1000 * 2^n, 60000), the n-th element of
\* 2000, 4000, 8000, 16000, 32000, 60000 (five times); the delays of an
\* exhausted budget add up to 362000 ms.
C4_BackoffSchedule ==
  /\ closures \in 1..maxReconnectAttempts =>
       /\ lastDelay = Schedule[closures]
       /\ lastDelay = Min(1000 * 2^closures, 60000)
  /\ closures >= maxReconnectAttempts => backoff = 362000

C4_Witness == closures = maxReconnectAttempts /\ backoff = 362000 /\ lastDelay = 60000

\* C5: a reconnect is scheduled only by a step that increments the attempt
\* counter below 10; the counter decreases only by an open transition, to zero;
\* a non-logged-out closure that finds the counter at 10 drops the handle and
\* leaves no reconnect pending.
C5_RetryBudget ==
  [][ /\ (BagCardinality(timers') > BagCardinality(timers) =>
            /\ reconnectAttempts < maxReconnectAttempts
            /\ reconnectAttempts' = reconnectAttempts + 1)
      /\ (reconnectAttempts' < reconnectAttempts =>
            OpenStep /\ reconnectAttempts' = 0)
      /\ (ClosureStep /\ reconnectAttempts = maxReconnectAttempts =>
            /\ sock' = Null
            /\ reconnectAttempts' = reconnectAttempts
            /\ timers' = EmptyBag) ]_vars

\* C6: at most one reconnect timer is pending at any time.
C6_OnePendingReconnect == BagCardinality(timers) <= 1

\* C7: whenever the manager holds a connection instance, the handlers attached
\* to it are exactly the handlers registered so far through onPersistent, each
\* once, in registration order.
C7_HandlersAttached == sock # Null => sock.listeners = registeredHandlers

C7_Witness ==
  /\ sock.st = "connecting"
  /\ reconnectAttempts >= 1
  /\ registeredHandlers # <<>>
  /\ sock.listeners = registeredHandlers

\* C8: at most one connect attempt is in flight, and a connect() call that
\* finds an attempt in flight returns the handle of the in-flight socket.
C8_InFlightGuard ==
  /\ InFlightCount <= 1
  /\ ret.kind \in {"handle", "throw"} => ret.kind = "handle" /\ ret.inFlight

\* C9: a reconnect that was pending when the manager handled a logged-out
\* closure never creates a session.
C9_PendingReconnectSkipped == [][~connectCreate("stale")]_vars

\* C10: when disconnect() returns, the connection handle is null and the
\* connecting flag is false.
C10_DisconnectClears ==
  ret.kind = "disconnected" => sock = Null /\ isConnecting = FALSE

====
